---- MODULE Spec2Model ----
(***************************************************************************)
(* A model of the text parsing core of the schedule scraper                *)
(* (scraper/main.go), of the schema value types it produces (schema:       *)
(* ClockTime, ClockRange, Date, DateRange), of the schedule table loop of  *)
(* run, and of the two transports the scraper fetches through              *)
(* (internal/zyte, internal/httpcache).                                    *)
(*                                                                         *)
(* A Go string is modelled as a sequence of characters, each character a   *)
(* one-letter TLA+ string.  The few non-ASCII / control characters the     *)
(* normalizer treats specially carry a symbolic name: "NBSP", "ZWSP",      *)
(* "ENDASH", "NL", "TAB", "ESC", "NUL"; "LDQUO" and "RSQUO", a left double *)
(* and a right single quotation mark; "ACUTE", the combining acute accent  *)
(* U+0301, with the composed letters "EACUTE", "CAPEACUTE", "IACUTE";      *)
(* "IDOT", the capital I with dot above U+0130; "REG", the registered      *)
(* sign.  In the time cells and date phrases every character is ASCII      *)
(* after normalizeText, so Len(s) is also the byte length len(s) that the  *)
(* Go code tests.                                                          *)
(***************************************************************************)
EXTENDS Integers, Sequences, FiniteSets, TLC

VARIABLES
    lhs, mid, rhs,      \* the scraped time cell: left side, separator run, right side
    pc,                 \* position inside parseClockRange
    s1, s2,             \* its locals: the two sides after the separator was cut
    t1, m1, t2, m2,     \* its locals: the parsed times and their meridiems
    r,                  \* its result: [ok, Start, End, panic]
    dmod, dleft, dconn, dright,  \* the date phrase: modifier, left date, connective, right part
    dpc,                \* position inside parseDateRange
    dr,                 \* its result: [ok, From, To]
    comp1, comp2,       \* the components two Dates are made from
    rawDate,            \* an integer converted to a Date
    date1, date2,       \* the two Dates
    valid1,             \* Date.IsValid of the first
    spc,                \* position in the use of the schema Date
    text, nl, lc,       \* a scraped text and the newlines / lower flags
    once, twice,        \* normalizeText of the text, and of that result
    npc,                \* position in the normalizing
    caption,            \* a schedule caption, as the parts it is written from
    cut,                \* cutDateRange of it: [prefix, dates, ok]
    kpc,                \* position in the cutting
    aname,              \* the pieces of the activity name cleanActivityName is run on
    cleaned,            \* what cleanActivityName returned
    apc,                \* "idle", "start" or "done"
    row,                \* the day cells of a table row: header and text of each
    ci,                 \* the cell the scraper is at
    fields,             \* the comma-separated entries of the cell still to do
    hwkday,             \* the weekday of the cell's header, -1 when unknown
    times,              \* the TimeRanges of the cell so far
    days,               \* the ActivityDays of the row so far
    xerrors,            \* facility._errors
    rpc,                \* "idle", "header", "entries", "done" or "panic"
    zlimit,             \* Transport.Limit: the limit of FixedLimit, -2 for nil
    requests,           \* the counter of FixedLimit
    zretry,             \* Transport.Retry: the n of RetryLimit, -2 for nil
    tries,              \* the retries of the RoundTrip under way
    cancelled,          \* whether the context of the request is cancelled
    zlast,              \* what Next gave last: "none", "paid", "rate", "ban", "other", "error"
    zresult,            \* how the last RoundTrip ended
    trips,              \* RoundTrips begun
    sent,               \* requests sent to Next in this RoundTrip
    paid,               \* 2xx responses Next gave, over all RoundTrips
    bans,               \* ban responses in this RoundTrip
    retryCalls,         \* calls of Retry in this RoundTrip
    zpc,                \* "off", "idle", "loop", "send", "wait" or "backoff"
    hpath,              \* whether Transport.Path is set
    hfallback,          \* Transport.Fallback
    hnext,              \* whether Transport.Next is set
    hcache,             \* the files under Path: the body stored for a category and URL, 0 for none
    hreq,               \* the request of the last RoundTrip
    hres,               \* what the last RoundTrip returned, and whether it called Next
    hpc,                \* "off" or "on"
    qr,                 \* hh1, mm1, hh2, mm2 handed to MakeClockRange for r
    qo,                 \* the same for o
    rng,                \* the ClockRange r
    oth,                \* the ClockRange o
    ovl,                \* r.Overlaps(o)
    lvo,                \* o.Overlaps(r)
    gpc,                \* "off", "args", "made" or "done"
    flimit,             \* the limit FixedLimit was given
    fcount,             \* the requests variable the closure shares between its callers
    fpc,                \* where each goroutine is in the closure: "off", "idle", "check", "incr" or "store"
    freg,               \* the value of requests each goroutine holds in a register
    fcalls,             \* the calls each goroutine has begun
    fnils,              \* the calls that returned nil
    ferrs               \* the calls that returned the limit error

clockVars == <<lhs, mid, rhs, pc, s1, s2, t1, m1, t2, m2, r>>
dateVars == <<dmod, dleft, dconn, dright, dpc, dr>>
packVars == <<comp1, comp2, rawDate, date1, date2, valid1, spc>>
textVars == <<text, nl, lc, once, twice, npc>>
cutVars == <<caption, cut, kpc>>
cleanVars == <<aname, cleaned, apc>>
rowVars == <<row, ci, fields, hwkday, times, days, xerrors, rpc>>
zyteVars == <<zlimit, requests, zretry, tries, cancelled, zlast, zresult, trips, sent, paid, bans, retryCalls, zpc>>
cacheVars == <<hpath, hfallback, hnext, hcache, hreq, hres, hpc>>
rangeVars == <<qr, qo, rng, oth, ovl, lvo, gpc>>
raceVars == <<flimit, fcount, fpc, freg, fcalls, fnils, ferrs>>
vars == <<clockVars, dateVars, packVars, textVars, cutVars, cleanVars, rowVars, zyteVars, cacheVars, rangeVars, raceVars>>

\* What each part of the program leaves alone.
besideClock == <<dateVars, packVars, textVars, cutVars, cleanVars, rowVars, zyteVars, cacheVars, rangeVars, raceVars>>
besideDate == <<clockVars, packVars, textVars, cutVars, cleanVars, rowVars, zyteVars, cacheVars, rangeVars, raceVars>>
besidePack == <<clockVars, dateVars, textVars, cutVars, cleanVars, rowVars, zyteVars, cacheVars, rangeVars, raceVars>>
besideText == <<clockVars, dateVars, packVars, cutVars, cleanVars, rowVars, zyteVars, cacheVars, rangeVars, raceVars>>
besideCut == <<clockVars, dateVars, packVars, textVars, cleanVars, rowVars, zyteVars, cacheVars, rangeVars, raceVars>>
besideClean == <<clockVars, dateVars, packVars, textVars, cutVars, rowVars, zyteVars, cacheVars, rangeVars, raceVars>>
besideRow == <<clockVars, dateVars, packVars, textVars, cutVars, cleanVars, zyteVars, cacheVars, rangeVars, raceVars>>
besideZyte == <<clockVars, dateVars, packVars, textVars, cutVars, cleanVars, rowVars, cacheVars, rangeVars, raceVars>>
besideCache == <<clockVars, dateVars, packVars, textVars, cutVars, cleanVars, rowVars, zyteVars, rangeVars, raceVars>>
besideRange == <<clockVars, dateVars, packVars, textVars, cutVars, cleanVars, rowVars, zyteVars, cacheVars, raceVars>>
besideRace == <<clockVars, dateVars, packVars, textVars, cutVars, cleanVars, rowVars, zyteVars, cacheVars, rangeVars>>

---------------------------------------------------------------------------
(* Strings.                                                                *)

Digits == {"0", "1", "2", "3", "4", "5", "6", "7", "8", "9"}

UpperSeq == <<"A","B","C","D","E","F","G","H","I","J","K","L","M",
              "N","O","P","Q","R","S","T","U","V","W","X","Y","Z">>

LowerSeq == <<"a","b","c","d","e","f","g","h","i","j","k","l","m",
              "n","o","p","q","r","s","t","u","v","w","x","y","z">>

\* unicode.ToLower on the modelled alphabet.
ToLower(c) ==
    IF c = "IDOT" THEN "i"
    ELSE IF c = "CAPEACUTE" THEN "EACUTE"
    ELSE IF \E i \in 1..26 : UpperSeq[i] = c
    THEN LowerSeq[CHOOSE i \in 1..26 : UpperSeq[i] = c]
    ELSE c

\* The characters Go's strings.TrimSpace / unicode.IsSpace remove.
IsSpace(c) == c \in {" ", "NL", "TAB", "NBSP"}

\* strings.Index: the first position (1-based) of sep in s, 0 when absent
\* (Go: -1).
Index(s, sep) ==
    LET hits == { i \in 1..(Len(s) - Len(sep) + 1) :
                    SubSeq(s, i, i + Len(sep) - 1) = sep }
    IN IF hits = {} THEN 0 ELSE CHOOSE i \in hits : \A j \in hits : i <= j

\* strings.Contains.
Contains(s, sub) == Index(s, sub) # 0

\* The cut of s around the occurrence of sep at position i (0: none).
CutAt(s, sep, i) ==
    IF i = 0
    THEN [before |-> s, after |-> <<>>, ok |-> FALSE]
    ELSE [before |-> SubSeq(s, 1, i - 1),
          after |-> SubSeq(s, i + Len(sep), Len(s)),
          ok |-> TRUE]

\* strings.Cut.
Cut(s, sep) == CutAt(s, sep, Index(s, sep))

HasPrefix(s, p) == Len(s) >= Len(p) /\ SubSeq(s, 1, Len(p)) = p

HasSuffix(s, p) == Len(s) >= Len(p) /\ SubSeq(s, Len(s) - Len(p) + 1, Len(s)) = p

\* strings.CutPrefix.
CutPrefix(s, p) ==
    IF HasPrefix(s, p)
    THEN [s |-> SubSeq(s, Len(p) + 1, Len(s)), ok |-> TRUE]
    ELSE [s |-> s, ok |-> FALSE]

\* strings.CutSuffix.
CutSuffix(s, p) ==
    IF HasSuffix(s, p)
    THEN [s |-> SubSeq(s, 1, Len(s) - Len(p)), ok |-> TRUE]
    ELSE [s |-> s, ok |-> FALSE]

\* strings.TrimSpace.
TrimSpace(s) ==
    LET keep == { i \in 1..Len(s) : ~IsSpace(s[i]) }
    IN IF keep = {} THEN <<>>
       ELSE SubSeq(s, CHOOSE i \in keep : \A j \in keep : i <= j,
                      CHOOSE i \in keep : \A j \in keep : i >= j)

\* strings.TrimRight(s, " ").
TrimRightSpaces(s) ==
    LET keep == { i \in 1..Len(s) : s[i] # " " }
    IN IF keep = {} THEN <<>>
       ELSE SubSeq(s, 1, CHOOSE i \in keep : \A j \in keep : i >= j)

\* strings.ReplaceAll(s, " ", "").
RemoveSpaces(s) == SelectSeq(s, LAMBDA c : c # " ")

\* stringsCutFirst(s, "-", "to") and stringsCutFirst(s, ",", " "): cut at the
\* earliest of two separators; on a tie the first-listed one wins.
CutEarliest(s, sepA, ia, sepB, ib) ==
    IF ia # 0 /\ (ib = 0 \/ ia <= ib)
    THEN CutAt(s, sepA, ia)
    ELSE CutAt(s, sepB, ib)

stringsCutFirst(s, sepA, sepB) == CutEarliest(s, sepA, Index(s, sepA), sepB, Index(s, sepB))

DigitVal(c) ==
    CASE c = "0" -> 0 [] c = "1" -> 1 [] c = "2" -> 2 [] c = "3" -> 3
      [] c = "4" -> 4 [] c = "5" -> 5 [] c = "6" -> 6 [] c = "7" -> 7
      [] c = "8" -> 8 [] c = "9" -> 9

AllDigits(s) == \A i \in 1..Len(s) : s[i] \in Digits

\* The value of a run of decimal digits.
DecVal(s) ==
    LET F[i \in 0..Len(s)] ==
            IF i = 0 THEN 0 ELSE 10 * F[i - 1] + DigitVal(s[i])
    IN F[Len(s)]

\* strconv.ParseInt(s, 10, 0): an optional sign, then one or more decimal
\* digits.  (A value outside int64 is an error in Go; every caller here also
\* rejects any value that large, so the width is not modelled.)
ParseInt(s) ==
    LET signed == Len(s) > 0 /\ s[1] \in {"+", "-"}
        body == IF signed THEN SubSeq(s, 2, Len(s)) ELSE s
    IN IF Len(body) = 0 \/ ~AllDigits(body)
       THEN [ok |-> FALSE, v |-> 0]
       ELSE [ok |-> TRUE,
             v |-> IF signed /\ s[1] = "-" THEN 0 - DecVal(body) ELSE DecVal(body)]

---------------------------------------------------------------------------
(* normalizeText.                                                          *)

\* norm.NFKC on the modelled alphabet: NO-BREAK SPACE decomposes to SPACE.
NFKC(c) == IF c = "NBSP" THEN " " ELSE c

\* The canonical composite of a letter and the combining mark after it,
\* "NONE" when there is none.
Composite(base, mark) ==
    IF mark # "ACUTE" THEN "NONE"
    ELSE IF base = "e" THEN "EACUTE"
    ELSE IF base = "E" THEN "CAPEACUTE"
    ELSE IF base = "i" THEN "IACUTE"
    ELSE "NONE"

\* The composition step of norm.NFKC.String: a combining mark joins the
\* letter right before it when the pair has a composite.
composeMark(done, c) ==
    IF done # <<>> /\ Composite(done[Len(done)], c) # "NONE"
    THEN [done EXCEPT ![Len(done)] = Composite(done[Len(done)], c)]
    ELSE Append(done, c)

ComposeMarks(s) ==
    LET F[i \in 0..Len(s)] == IF i = 0 THEN <<>> ELSE composeMark(F[i - 1], s[i])
    IN F[Len(s)]

\* norm.NFKC.String.
NFKCString(s) == ComposeMarks([i \in 1..Len(s) |-> NFKC(s[i])])

\* The strings.Map callback: the replacement of one character, "DEL" when
\* the character is dropped (Go: -1).
mapRune(c, newlines, lower) ==
    IF c = "ZWSP" THEN "DEL"
    ELSE IF c = "NL" /\ newlines THEN c
    ELSE IF c \in {"NL", " ", "TAB", "NBSP"} THEN " "
    ELSE IF c = "LDQUO" THEN "\""
    ELSE IF c = "RSQUO" THEN "'"
    ELSE IF c \in {"ENDASH", "-"} THEN "-"
    ELSE IF c \in {"ESC", "NUL"} THEN "DEL"
    ELSE IF lower THEN ToLower(c)
    ELSE c

\* slices.CompactFunc(.., a == ' ' && a == b): runs of spaces collapse to one.
CompactSpaces(s) ==
    LET keep(i) == ~(i > 1 /\ s[i] = " " /\ s[i - 1] = " ")
        F[i \in 0..Len(s)] ==
            IF i = 0 THEN <<>>
            ELSE IF keep(i) THEN Append(F[i - 1], s[i]) ELSE F[i - 1]
    IN F[Len(s)]

normalizeText(s, newlines, lower) ==
    LET n == NFKCString(s)
        m == [i \in 1..Len(n) |-> mapRune(n[i], newlines, lower)]
        d == SelectSeq(m, LAMBDA c : c # "DEL")
    IN TrimSpace(CompactSpaces(d))

---------------------------------------------------------------------------
(* schema.ClockTime and schema.ClockRange.                                 *)

DayMinutes == 1440

\* schema.MakeClockTime.
MakeClockTime(hh, mm) == IF hh < 0 \/ mm < 0 THEN -1 ELSE hh * 60 + mm

\* ClockTime.IsValid.
ClockTimeIsValid(t) == t >= 0

\* ClockRange.IsValid.
ClockRangeIsValid(rg) ==
    ClockTimeIsValid(rg.Start) /\ ClockTimeIsValid(rg.End) /\ rg.Start < rg.End

DigitChar(n) == CHOOSE c \in Digits : DigitVal(c) = n

\* ClockTime.Format: ">" once per day offset, then HH:MM, or H:MM with am/pm.
ClockTimeFormat(t, ampm) ==
    IF ~ClockTimeIsValid(t) THEN <<"i","n","v","a","l","i","d">>
    ELSE
      LET d == t \div DayMinutes
          h24 == (t % DayMinutes) \div 60
          mm == (t % DayMinutes) % 60
          pm == ampm /\ h24 >= 12
          hh == IF pm THEN h24 - 12 ELSE h24
          marks == [i \in 1..d |-> ">"]
          hour == IF ampm /\ hh = 0 THEN <<"1", "2">>
                  ELSE (IF ~ampm \/ hh >= 10 THEN <<DigitChar(hh \div 10)>> ELSE <<>>)
                       \o <<DigitChar(hh % 10)>>
          suffix == IF ampm THEN <<(IF pm THEN "p" ELSE "a"), "m">> ELSE <<>>
      IN marks \o hour \o <<":", DigitChar(mm \div 10), DigitChar(mm % 10)>> \o suffix

\* A Format that keeps the day-offset marker and both am/pm suffixes.
ClockRangeFormat_marked(rg, ampm) ==
    IF ~ClockRangeIsValid(rg) THEN <<"i","n","v","a","l","i","d">>
    ELSE ClockTimeFormat(rg.Start, ampm) \o <<" ", "-", " ">> \o ClockTimeFormat(rg.End, ampm)

\* ClockRange.Format.
ClockRangeFormat(rg, ampm) ==
    IF ~ClockRangeIsValid(rg) THEN <<"i","n","v","a","l","i","d">>
    ELSE
      LET x == ClockTimeFormat(rg.Start, ampm)
          y == ClockTimeFormat(rg.End, ampm)
          short == rg.End - rg.Start < DayMinutes /\ rg.Start < DayMinutes
          y2 == IF short /\ y[1] = ">" THEN Tail(y) ELSE y
          x2 == IF short /\ ampm /\ x[Len(x) - 1] = y2[Len(y2) - 1]
                THEN SubSeq(x, 1, Len(x) - 2) ELSE x
      IN x2 \o <<" ", "-", " ">> \o y2

---------------------------------------------------------------------------
(* parseClockRange.                                                        *)

\* The meridiem byte m of parsePart: 0 (none), 'a' or 'p'.
NoMeridiem == "0"

AM == <<"a", "m">>

PM == <<"p", "m">>

NOON == <<"n","o","o","n">>

MIDNIGHT == <<"m","i","d","n","i","g","h","t">>

\* parseSeparator: the earliest "-" or "to".
parseSeparator(s) == stringsCutFirst(s, <<"-">>, <<"t", "o">>)

\* A parser without the leniency for repeated suffixes.
cutDuplicateSuffix_strict(s, suffix) == s

\* The lenient loop after a first am/pm suffix was cut: further copies of
\* the same suffix are dropped.
RECURSIVE cutDuplicateSuffix(_, _)
cutDuplicateSuffix(s, suffix) ==
    IF HasSuffix(TrimRightSpaces(s), suffix)
    THEN cutDuplicateSuffix(CutSuffix(TrimRightSpaces(s), suffix).s, suffix)
    ELSE s

\* sh, sm and m once the suffix is gone: the rest is split at ":" (no
\* minute: "00").
hourMinute(c, m) ==
    [sh |-> c.before, sm |-> IF c.ok THEN c.after ELSE <<"0", "0">>, m |-> m]

\* The am/pm branch of parsePart: the suffix is cut with its duplicates and
\* m is set from it, or from mdef when there is none.
splitTwelveHour(s, mdef) ==
    IF HasSuffix(s, PM)
    THEN hourMinute(Cut(cutDuplicateSuffix(CutSuffix(s, PM).s, PM), <<":">>), "p")
    ELSE IF HasSuffix(s, AM)
    THEN hourMinute(Cut(cutDuplicateSuffix(CutSuffix(s, AM).s, AM), <<":">>), "a")
    ELSE hourMinute(Cut(s, <<":">>), mdef)

\* The first half of parsePart: the hour and minute substrings and the
\* meridiem, for the french (HhMM), military (HHMM) and 12h/24h forms.
\* In the french and military forms m stays 0 whatever mdef is.
splitPart(s, mdef) ==
    IF Index(s, <<"h">>) # 0
    THEN [sh |-> Cut(s, <<"h">>).before, sm |-> Cut(s, <<"h">>).after, m |-> NoMeridiem]
    ELSE IF Len(s) = 4 /\ AllDigits(s)
         THEN [sh |-> SubSeq(s, 1, 2), sm |-> SubSeq(s, 3, 4), m |-> NoMeridiem]
         ELSE splitTwelveHour(s, mdef)

\* The hour of parsePart after its range check and 12h conversion; -1 when
\* the hour is out of range.
convertHour(hh, m) ==
    IF m # NoMeridiem
    THEN IF hh < 1 \/ hh > 12 THEN -1
         ELSE IF m = "p" /\ hh < 12 THEN hh + 12
         ELSE IF m = "a" /\ hh = 12 THEN 0
         ELSE hh
    ELSE IF hh < 0 \/ hh > 23 THEN -1 ELSE hh

PartFail == [t |-> 0, m |-> NoMeridiem, ok |-> FALSE]

\* The second half of parsePart, on the parsed hour and minute.
makePart(hh, mm, m) ==
    IF ~hh.ok THEN PartFail
    ELSE IF convertHour(hh.v, m) < 0 THEN PartFail
    ELSE IF ~mm.ok THEN PartFail
    ELSE IF mm.v < 0 \/ mm.v > 59 THEN PartFail
    ELSE [t |-> MakeClockTime(convertHour(hh.v, m), mm.v), m |-> m, ok |-> TRUE]

\* The second half of parsePart, on the hour and minute substrings.
convertPart(p) ==
    IF Len(p.sh) > 2 \/ Len(p.sm) > 2 THEN PartFail
    ELSE makePart(ParseInt(p.sh), ParseInt(p.sm), p.m)

\* parsePart.
parsePart(s, mdef) ==
    IF s = MIDNIGHT THEN [t |-> MakeClockTime(0, 0), m |-> "a", ok |-> TRUE]
    ELSE IF s = NOON THEN [t |-> MakeClockTime(12, 0), m |-> "p", ok |-> TRUE]
    ELSE convertPart(splitPart(s, mdef))

\* The lenient loop over extraneous separators: while what follows the
\* separator starts with another separator and something follows that one,
\* the extra separator is dropped.
RECURSIVE skipSeparators(_)
skipAfter(x, c) ==
    IF ~c.ok THEN x
    ELSE IF TrimSpace(c.before) # <<>> \/ TrimSpace(c.after) = <<>> THEN x
    ELSE skipSeparators(c.after)

skipSeparators(x) == skipAfter(x, parseSeparator(x))

NoSides == [s1 |-> <<>>, s2 |-> <<>>, ok |-> FALSE]

\* The two sides of the first separator; ok is false for a single time or
\* an open range.
sidesOf(c) ==
    IF ~c.ok THEN NoSides
    ELSE [s1 |-> c.before, s2 |-> skipSeparators(c.after),
          ok |-> c.before # <<>> /\ skipSeparators(c.after) # <<>>]

\* The head of parseClockRange: normalize, drop the spaces, cut at the
\* separator.
cutSides(s) == sidesOf(parseSeparator(RemoveSpaces(normalizeText(s, FALSE, TRUE))))

\* A parser that lets a 12h left side through against an unmarked right side.
ambiguous_never(ma, mb) == FALSE

\* "ambiguous lhs 12h and rhs 24h".
ambiguous(ma, mb) == ma # NoMeridiem /\ mb = NoMeridiem

\* A parser that never reads the left side again.
needsReparse_never(ma, mb) == FALSE

\* "reparse lhs with 12h rhs am/pm".
needsReparse(ma, mb) == ma = NoMeridiem /\ mb # NoMeridiem

\* "zero range".
zeroRange(ta, tb) == ta = tb

\* A parser that forgets the next-day rule.
nextDay_sameDay(ta, tb) == tb

\* "next day".
nextDay(ta, tb) == IF ta > tb THEN tb + 24 * 60 ELSE tb

Failed == [ok |-> FALSE, Start |-> 0, End |-> 0, panic |-> FALSE]

Panicked == [ok |-> FALSE, Start |-> 0, End |-> 0, panic |-> TRUE]

\* The last lines of parseClockRange: zero range, next day, the result.
makeRange(pa, pb) ==
    [left |-> pa,
     res |-> IF zeroRange(pa.t, pb.t) THEN Failed
             ELSE [ok |-> TRUE, Start |-> pa.t, End |-> nextDay(pa.t, pb.t), panic |-> FALSE]]

\* After the left side was parsed again with the right side's meridiem.
afterReparse(re, pb) ==
    IF ~re.ok THEN [left |-> re, res |-> Failed]
    ELSE IF re.m # pb.m THEN [left |-> re, res |-> Panicked]
    ELSE makeRange(re, pb)

\* The tail of parseClockRange, from the two parsed sides to the result:
\* the left time after the optional reparse, and the value returned.
resolve(a, pa, pb) ==
    IF ambiguous(pa.m, pb.m) THEN [left |-> pa, res |-> Failed]
    ELSE IF needsReparse(pa.m, pb.m) THEN afterReparse(parsePart(a, pb.m), pb)
    ELSE makeRange(pa, pb)

resolveParts(a, pa, pb) ==
    IF ~pa.ok \/ ~pb.ok THEN Failed ELSE resolve(a, pa, pb).res

parseSides(c) ==
    IF ~c.ok THEN Failed
    ELSE resolveParts(c.s1, parsePart(c.s1, NoMeridiem), parsePart(c.s2, NoMeridiem))

\* parseClockRange as a function of its argument.
parseClockRange(s) == parseSides(cutSides(s))

---------------------------------------------------------------------------
(* schema.Date and schema.DateRange.                                       *)

Min(a, b) == IF a < b THEN a ELSE b

\* schema.MakeDate: YYYYMMDDW.  The weekday digit is added when day > 0.
MakeDate(year, month, day, wkday) ==
    (IF Min(year, 9999) > 0 THEN Min(year, 9999) * 100000 ELSE 0)
    + (IF Min(month, 99) > 0 THEN Min(month, 99) * 1000 ELSE 0)
    + (IF Min(day, 99) > 0 THEN Min(day, 99) * 10 ELSE 0)
    + (IF day > 0 THEN Min(wkday + 1, 9) ELSE 0)

\* Date.IsZero.
DateIsZero(d) == d = 0

\* The digit groups of a date.
YearDigits(d) == (d \div 100000) % 10000

MonthDigits(d) == (d \div 1000) % 100

DayDigits(d) == (d \div 10) % 100

WeekdayDigit(d) == d % 10

\* Date.Year.
DateYear(d) ==
    IF d > 0 /\ YearDigits(d) # 0
    THEN [v |-> YearDigits(d), ok |-> TRUE]
    ELSE [v |-> 0, ok |-> FALSE]

\* Date.Month.
DateMonth(d) ==
    IF d > 0 /\ MonthDigits(d) # 0
    THEN [v |-> MonthDigits(d), ok |-> MonthDigits(d) >= 1 /\ MonthDigits(d) <= 12]
    ELSE [v |-> 0, ok |-> FALSE]

\* Date.Day.
DateDay(d) ==
    IF d > 0 /\ DayDigits(d) # 0
    THEN [v |-> DayDigits(d), ok |-> DayDigits(d) >= 1 /\ DayDigits(d) <= 31]
    ELSE [v |-> 0, ok |-> FALSE]

\* Date.Weekday: Sunday = 0.
DateWeekday(d) ==
    IF d > 0 /\ WeekdayDigit(d) # 0
    THEN IF WeekdayDigit(d) >= 1 /\ WeekdayDigit(d) <= 7
         THEN [v |-> WeekdayDigit(d) - 1, ok |-> TRUE]
         ELSE [v |-> WeekdayDigit(d), ok |-> FALSE]
    ELSE [v |-> 0, ok |-> FALSE]

IsLeapYear(y) == (y % 4 = 0 /\ y % 100 # 0) \/ y % 400 = 0

\* A mutant: February has 28 days in every year.
daysInMonth_noLeap(year, month) ==
    IF month = 2 THEN 28
    ELSE IF month \in {4, 6, 9, 11} THEN 30
    ELSE 31

\* daysInMonth: time.Date(year, month+1, 0, ...).Day(), for month 1..12.
daysInMonth(year, month) ==
    IF month = 2 THEN (IF IsLeapYear(year) THEN 29 ELSE 28)
    ELSE IF month \in {4, 6, 9, 11} THEN 30
    ELSE 31

\* time.Date(year, month, day, ...).Weekday() for a day of the month,
\* Sunday = 0.
MonthOffsets == <<0, 3, 2, 5, 0, 3, 5, 1, 4, 6, 2, 4>>

WeekdayAfterShift(y, month, day) ==
    (y + (y \div 4) - (y \div 100) + (y \div 400) + MonthOffsets[month] + day) % 7

WeekdayOfDate(year, month, day) ==
    WeekdayAfterShift(IF month < 3 THEN year - 1 ELSE year, month, day)

\* The body of Date.IsValid on the four accessors' results.
validComponents(wkday, year, month, day) ==
    /\ ~(~wkday.ok /\ wkday.v # 0)
    /\ ~(~year.ok /\ year.v # 0)
    /\ ~(~month.ok /\ month.v # 0)
    /\ ~(~day.ok /\ day.v # 0)
    /\ month.ok =>
         IF year.ok THEN ~(day.v > daysInMonth(year.v, month.v))
         ELSE ~(day.v > daysInMonth(2024, month.v))
    /\ (year.ok /\ month.ok /\ day.ok /\ wkday.ok) =>
         wkday.v = WeekdayOfDate(year.v, month.v, day.v)

\* Date.IsValid.
DateIsValid(d) ==
    /\ ~(d < 0 \/ d >= 999999999)
    /\ ~DateIsZero(d)
    /\ validComponents(DateWeekday(d), DateYear(d), DateMonth(d), DateDay(d))

---------------------------------------------------------------------------
(* parseDateRange.                                                         *)

\* time.Weekday(i).String() and time.Month(i).String(), lowercased.
WeekdayNames ==
    << <<"s","u","n","d","a","y">>,
       <<"m","o","n","d","a","y">>,
       <<"t","u","e","s","d","a","y">>,
       <<"w","e","d","n","e","s","d","a","y">>,
       <<"t","h","u","r","s","d","a","y">>,
       <<"f","r","i","d","a","y">>,
       <<"s","a","t","u","r","d","a","y">> >>

MonthNames ==
    << <<"j","a","n","u","a","r","y">>,
       <<"f","e","b","r","u","a","r","y">>,
       <<"m","a","r","c","h">>,
       <<"a","p","r","i","l">>,
       <<"m","a","y">>,
       <<"j","u","n","e">>,
       <<"j","u","l","y">>,
       <<"a","u","g","u","s","t">>,
       <<"s","e","p","t","e","m","b","e","r">>,
       <<"o","c","t","o","b","e","r">>,
       <<"n","o","v","e","m","b","e","r">>,
       <<"d","e","c","e","m","b","e","r">> >>

LowerText(s) == [i \in 1..Len(s) |-> ToLower(s[i])]

\* strings.EqualFold(s, x) || strings.EqualFold(s, x[:3]).
namesMatch(s, x) == LowerText(s) = x \/ LowerText(s) = SubSeq(x, 1, 3)

\* The weekday loop: the first weekday s names, -1 when none.
matchWeekday(s) ==
    IF \E i \in 1..7 : namesMatch(s, WeekdayNames[i])
    THEN (CHOOSE i \in 1..7 : namesMatch(s, WeekdayNames[i])) - 1
    ELSE -1

\* The month loop: the month s names, 0 when none.
matchMonth(s) ==
    IF \E i \in 1..12 : namesMatch(s, MonthNames[i])
    THEN CHOOSE i \in 1..12 : namesMatch(s, MonthNames[i])
    ELSE 0

\* rest = TrimSpace(rest); s, rest, _ = stringsCutFirst(rest, ",", " ").
nextToken(rest) == stringsCutFirst(TrimSpace(rest), <<",">>, <<" ">>)

\* A failed loose date: the partial date is returned with ok = false and
\* no caller reads it.
DateFail == [d |-> 0, ok |-> FALSE]

\* "make the date and check it".
finishDate(year, month, day, wkday) ==
    [d |-> MakeDate(year, month, day, wkday),
     ok |-> DateIsValid(MakeDate(year, month, day, wkday))]

\* "if there's anything left, parse the year", then "check for trailing junk".
yearToken(wkday, month, day, c, year) ==
    IF ~(year.ok /\ year.v > 2000 /\ year.v < 4000) THEN DateFail
    ELSE IF c.after # <<>> THEN DateFail
    ELSE finishDate(year.v, month, day, wkday)

afterDay(wkday, month, day, rest) ==
    IF rest # <<>>
    THEN yearToken(wkday, month, day, nextToken(rest), ParseInt(TrimSpace(nextToken(rest).before)))
    ELSE finishDate(0, month, day, wkday)

\* "parse the day".
dayToken(wkday, month, c, day) ==
    IF ~(day.ok /\ day.v >= 1 /\ day.v <= 32) THEN DateFail
    ELSE afterDay(wkday, month, day.v, c.after)

afterMonth(wkday, month, rest) ==
    dayToken(wkday, month, nextToken(rest), ParseInt(TrimSpace(nextToken(rest).before)))

\* "if wasn't a month, parse the month next".
monthToken(wkday, c) ==
    IF matchMonth(TrimSpace(c.before)) = 0 THEN DateFail
    ELSE afterMonth(wkday, matchMonth(TrimSpace(c.before)), c.after)

\* "parse a weekday or month".
firstToken(c) ==
    IF matchWeekday(TrimSpace(c.before)) >= 0
    THEN monthToken(matchWeekday(TrimSpace(c.before)), nextToken(c.after))
    ELSE IF matchMonth(TrimSpace(c.before)) # 0
    THEN afterMonth(-1, matchMonth(TrimSpace(c.before)), c.after)
    ELSE DateFail

\* parseDateRange's parsePart: a loose date.
parseLooseDate(s) == firstToken(nextToken(s))

STARTING == <<"s","t","a","r","t","i","n","g"," ">>

UNTIL == <<"u","n","t","i","l"," ">>

TO == <<" ","t","o"," ">>

AND == <<" ","a","n","d"," ">>

RangeFail == [ok |-> FALSE, From |-> 0, To |-> 0]

\* The modifier cut off the normalized phrase.
modifierOf(n) ==
    IF HasPrefix(n, STARTING) THEN "starting"
    ELSE IF HasPrefix(n, UNTIL) THEN "until"
    ELSE "none"

withoutModifier(n) ==
    IF HasPrefix(n, STARTING) THEN CutPrefix(n, STARTING).s ELSE CutPrefix(n, UNTIL).s

\* The split at the first " to ", else at the first " and ".
splitRange(b) ==
    IF Index(b, TO) # 0
    THEN [left |-> Cut(b, TO).before, right |-> Cut(b, TO).after, kind |-> "to"]
    ELSE IF Index(b, AND) # 0
    THEN [left |-> Cut(b, AND).before, right |-> Cut(b, AND).after, kind |-> "and"]
    ELSE [left |-> b, right |-> <<>>, kind |-> "none"]

\* A mutant: any right day is taken for an "and" range.
adjacent_any(leftDay, day) == TRUE

\* "right day must be 1 more than the left day for an and range".
adjacent(leftDay, day) == leftDay + 1 = day

withRight(left, right) ==
    IF ~right.ok THEN RangeFail ELSE [ok |-> TRUE, From |-> left, To |-> right.d]

\* The to/and case: the right side is a bare day number that takes the
\* left side's year and month, or (for "to") a loose date of its own.
rangeOf(kind, left, rightStr, day) ==
    IF kind = "and" /\ DateYear(left).ok THEN RangeFail
    ELSE IF day.ok /\ day.v >= 1 /\ day.v <= 32
    THEN IF kind = "and" /\ ~DateDay(left).ok THEN RangeFail
         ELSE IF kind = "and" /\ ~adjacent(DateDay(left).v, day.v) THEN RangeFail
         ELSE [ok |-> TRUE, From |-> left,
               To |-> MakeDate(IF DateYear(left).ok THEN DateYear(left).v ELSE 0,
                               IF DateMonth(left).ok THEN DateMonth(left).v ELSE 0,
                               day.v, -1)]
    ELSE IF kind = "and" THEN RangeFail
    ELSE withRight(left, parseLooseDate(rightStr))

\* A mutant: "starting X" fills both sides like a bare date.
oneSided_both(modifier, left) == [ok |-> TRUE, From |-> left, To |-> left]

\* The starting / until / bare cases.
oneSided(modifier, left) ==
    IF modifier = "starting" THEN [ok |-> TRUE, From |-> left, To |-> 0]
    ELSE IF modifier = "until" THEN [ok |-> TRUE, From |-> 0, To |-> left]
    ELSE [ok |-> TRUE, From |-> left, To |-> left]

withLeft(modifier, sp, left) ==
    IF ~left.ok THEN RangeFail
    ELSE IF sp.kind # "none" THEN rangeOf(sp.kind, left.d, sp.right, ParseInt(sp.right))
    ELSE oneSided(modifier, left.d)

splitModified(modifier, sp) ==
    IF sp.kind # "none" /\ modifier # "none" THEN RangeFail
    ELSE withLeft(modifier, sp, parseLooseDate(sp.left))

parseNormalized(n) == splitModified(modifierOf(n), splitRange(withoutModifier(n)))

\* parseDateRange.
parseDateRange(s) == parseNormalized(normalizeText(s, FALSE, TRUE))

---------------------------------------------------------------------------
(* cutDateRange: the match of cutDateRangeRe, stated on positions.  A      *)
(* match <<a, i, j, k>> of s reads s[1..a] as the leading \s*, s[a+1..i]   *)
(* as the prefix (.+?), s[i+1..j] as the separator [ -]*[-][ -]*,          *)
(* s[j+1..k] as the date phrase and the rest as the trailing \s*.          *)

IsLetter(c) == \E i \in 1..26 : LowerSeq[i] = c \/ UpperSeq[i] = c

\* \s of the regexp.
IsReSpace(c) == c \in {" ", "TAB", "NL"}

\* The month and weekday alternatives: each name whole or cut to three.
AllNames ==
    {MonthNames[i] : i \in 1..12} \cup {SubSeq(MonthNames[i], 1, 3) : i \in 1..12}
    \cup {WeekdayNames[i] : i \in 1..7} \cup {SubSeq(WeekdayNames[i], 1, 3) : i \in 1..7}

\* (?:$|[ ,]).* up to k: the name ends the text, or a space or comma and
\* anything but a newline follow it.
afterName(s, e, k) ==
    IF e = Len(s) THEN k = e
    ELSE /\ e < k
         /\ s[e + 1] \in {" ", ","}
         /\ \A x \in (e + 2)..k : s[x] # "NL"

\* One of the names, case-insensitively, at position pos.
nameAt(s, pos, k) ==
    \E n \in AllNames :
        /\ pos + Len(n) - 1 <= k
        /\ LowerText(SubSeq(s, pos, pos + Len(n) - 1)) = n
        /\ afterName(s, pos + Len(n) - 1, k)

\* ((?:(?:[a-z]+|)\s*)?(?:names)(?:$|[ ,]).*) on s[j+1..k].
phraseAt(s, j, k) ==
    \E l \in j..k :
        /\ \A x \in (j + 1)..l : IsLetter(s[x])
        /\ \E w \in l..k :
              /\ \A x \in (l + 1)..w : IsReSpace(s[x])
              /\ nameAt(s, w + 1, k)

\* [ -]*[-][ -]* on s[i+1..j].
separatorAt(s, i, j) ==
    /\ \A x \in (i + 1)..j : s[x] \in {" ", "-"}
    /\ \E x \in (i + 1)..j : s[x] = "-"

\* The ends of a leading \s* and the starts of a trailing \s*.
leadingCuts(s) == {a \in 0..Len(s) : \A x \in 1..a : IsReSpace(s[x])}

trailingCuts(s) == {k \in 0..Len(s) : \A x \in (k + 1)..Len(s) : IsReSpace(s[x])}

\* Every way the pattern matches the whole of s.
matches(s) ==
    {v \in leadingCuts(s) \X (1..Len(s)) \X (1..Len(s)) \X trailingCuts(s) :
        /\ v[1] < v[2] /\ v[2] < v[3] /\ v[3] < v[4]
        /\ separatorAt(s, v[2], v[3])
        /\ \A x \in (v[1] + 1)..v[2] : s[x] # "NL"
        /\ phraseAt(s, v[3], v[4])}

Largest(S) == CHOOSE x \in S : \A y \in S : y <= x

Smallest(S) == CHOOSE x \in S : \A y \in S : x <= y

\* A mutant: a greedy prefix (.+).
prefixEnd_greedy(V) == Largest({v[2] : v \in V})

\* The lazy prefix (.+?): the shortest one a match has.
prefixEnd(V) == Smallest({v[2] : v \in V})

\* The leftmost-first match: greedy leading \s*, lazy prefix, greedy
\* separator, greedy phrase.
afterLeading(V) == {v \in V : v[1] = Largest({u[1] : u \in V})}

afterPrefix(V) == {v \in V : v[2] = prefixEnd(V)}

afterSeparator(V) == {v \in V : v[3] = Largest({u[3] : u \in V})}

afterPhrase(V) == {v \in V : v[4] = Largest({u[4] : u \in V})}

preferred(V) == CHOOSE v \in afterPhrase(afterSeparator(afterPrefix(afterLeading(V)))) : TRUE

submatches(s, v) ==
    [prefix |-> SubSeq(s, v[1] + 1, v[2]), dates |-> SubSeq(s, v[3] + 1, v[4]), ok |-> TRUE]

cutMatch(s, V) ==
    IF V = {} THEN [prefix |-> s, dates |-> <<>>, ok |-> FALSE]
    ELSE submatches(s, preferred(V))

\* cutDateRange.
cutDateRange(s) == cutMatch(s, matches(s))

---------------------------------------------------------------------------
(* cutAgeMin: the matches of ageRangeRe,                                   *)
(*   (^|[\s-]+)\(?(?:ages\s+)?([0-9]+)(?:\s*\+)\)?([\s(-]+|$)              *)
(* found from left to right without overlap.                               *)

\* The first position from i on whose character is not in set.
RECURSIVE spanOf(_, _, _)
spanOf(s, i, set) ==
    IF i <= Len(s) /\ s[i] \in set THEN spanOf(s, i + 1, set) ELSE i

\* s has the text x at position i.
HasAt(s, i, x) == i + Len(x) - 1 <= Len(s) /\ SubSeq(s, i, i + Len(x) - 1) = x

ReSpaces == {" ", "TAB", "NL"}

PreSepChars == ReSpaces \cup {"-"}

PostSepChars == ReSpaces \cup {"(", "-"}

AGES == <<"a", "g", "e", "s">>

NoAgeMatch == [ok |-> FALSE, from |-> 0, to |-> 0, pre |-> <<>>, age |-> <<>>, post |-> <<>>]

\* ([\s(-]+|$) at q, the match having begun at p with the separator up to a
\* and the digits s[b..c-1].
agePost(s, p, a, b, c, q, e) ==
    IF e > q \/ q = Len(s) + 1
    THEN [ok |-> TRUE, from |-> p, to |-> e, pre |-> SubSeq(s, p, a - 1),
          age |-> SubSeq(s, b, c - 1), post |-> SubSeq(s, q, e - 1)]
    ELSE NoAgeMatch

\* \)? at q.
ageClose(s, p, a, b, c, q) ==
    IF q <= Len(s) /\ s[q] = ")"
    THEN agePost(s, p, a, b, c, q + 1, spanOf(s, q + 1, PostSepChars))
    ELSE agePost(s, p, a, b, c, q, spanOf(s, q, PostSepChars))

\* (?:\s*\+) at w, the digits having ended at c.
agePlus(s, p, a, b, c, w) ==
    IF w <= Len(s) /\ s[w] = "+" THEN ageClose(s, p, a, b, c, w + 1) ELSE NoAgeMatch

\* ([0-9]+) at b.
ageDigits(s, p, a, b, c) ==
    IF c > b THEN agePlus(s, p, a, b, c, spanOf(s, c, ReSpaces)) ELSE NoAgeMatch

\* (?:ages\s+)? at q.
ageWord(s, p, a, q) ==
    IF HasAt(s, q, AGES) /\ spanOf(s, q + 4, ReSpaces) > q + 4
    THEN ageDigits(s, p, a, spanOf(s, q + 4, ReSpaces), spanOf(s, spanOf(s, q + 4, ReSpaces), Digits))
    ELSE ageDigits(s, p, a, q, spanOf(s, q, Digits))

\* \(? at a.
ageOpen(s, p, a) ==
    IF a <= Len(s) /\ s[a] = "(" THEN ageWord(s, p, a, a + 1) ELSE ageWord(s, p, a, a)

\* The match that begins at p: (^|[\s-]+) takes nothing at the start of the
\* text, else the run of spaces and dashes at p.
ageMatchAt(s, p) ==
    IF p = 1 /\ ageOpen(s, 1, 1).ok THEN ageOpen(s, 1, 1)
    ELSE IF spanOf(s, p, PreSepChars) > p THEN ageOpen(s, p, spanOf(s, p, PreSepChars))
    ELSE NoAgeMatch

\* FindAllStringSubmatch(activity, -1): the leftmost match from position
\* p on, then the matches after its end.
RECURSIVE ageMatches(_, _)
ageMatches(s, p) ==
    IF p > Len(s) THEN <<>>
    ELSE IF ageMatchAt(s, p).ok
    THEN <<ageMatchAt(s, p)>> \o ageMatches(s, ageMatchAt(s, p).to)
    ELSE ageMatches(s, p + 1)

OctVal(s) == IF s = <<>> THEN 0 ELSE LET F[i \in 0..Len(s)] == IF i = 0 THEN 0 ELSE F[i - 1] * 8 + DigitVal(s[i]) IN F[Len(s)]

\* strconv.ParseInt(ageStr, 0, 10) on a run of digits: base 0 reads a
\* leading 0 as octal, and 10 bits hold no more than 511.
parseAge(digits) ==
    IF Len(digits) > 1 /\ digits[1] = "0"
    THEN IF \E i \in 2..Len(digits) : digits[i] \in {"8", "9"} THEN [ok |-> FALSE, v |-> 0]
         ELSE [ok |-> OctVal(Tail(digits)) <= 511, v |-> OctVal(Tail(digits))]
    ELSE [ok |-> DecVal(digits) <= 511, v |-> DecVal(digits)]

\* strings.ReplaceAll(s, old, new) for a non-empty old.
RECURSIVE ReplaceAll(_, _, _)
ReplaceAll(s, old, new) ==
    IF Index(s, old) = 0 THEN s
    ELSE SubSeq(s, 1, Index(s, old) - 1) \o new
         \o ReplaceAll(SubSeq(s, Index(s, old) + Len(old), Len(s)), old, new)

\* sep := cmp.Or(preSep, postSep), collapsed when it is all whitespace.
ageSeparator(sep, postSep) ==
    IF sep # <<>> /\ TrimSpace(sep) = <<>>
    THEN (IF TrimSpace(postSep) = <<>> THEN <<" ">> ELSE postSep)
    ELSE sep

NoAge == -1

\* len(ms) == 1.
oneMatch(ms) == Len(ms) = 1

cutAgeOf(activity, ms, age) ==
    IF oneMatch(ms) /\ age.ok /\ age.v > 0 /\ age.v < 150
    THEN [s |-> TrimSpace(ReplaceAll(activity, SubSeq(activity, ms[1].from, ms[1].to - 1),
                    ageSeparator(IF ms[1].pre # <<>> THEN ms[1].pre ELSE ms[1].post, ms[1].post))),
          age |-> age.v, ok |-> TRUE]
    ELSE [s |-> activity, age |-> NoAge, ok |-> FALSE]

firstAge(ms) == IF ms = <<>> THEN [ok |-> FALSE, v |-> 0] ELSE parseAge(ms[1].age)

\* cutAgeMin.
cutAgeMin(activity) ==
    cutAgeOf(activity, ageMatches(activity, 1), firstAge(ageMatches(activity, 1)))

---------------------------------------------------------------------------
(* cleanActivityName and the other cuts it makes.  "REG" is the registered *)
(* sign U+00AE.                                                            *)

\* strings.LastIndex(s, "*"), 0 when absent.
LastStar(s) ==
    IF \E i \in 1..Len(s) : s[i] = "*"
    THEN CHOOSE i \in 1..Len(s) : s[i] = "*" /\ \A j \in (i + 1)..Len(s) : s[j] # "*"
    ELSE 0

\* strings.Trim(s, cutset).
Trim(s, cutset) ==
    LET keep == { i \in 1..Len(s) : s[i] \notin cutset }
    IN IF keep = {} THEN <<>>
       ELSE SubSeq(s, CHOOSE i \in keep : \A j \in keep : i <= j,
                      CHOOSE i \in keep : \A j \in keep : i >= j)

\* strings.TrimRight(s, cutset).
TrimRight(s, cutset) ==
    LET keep == { i \in 1..Len(s) : s[i] \notin cutset }
    IN IF keep = {} THEN <<>>
       ELSE SubSeq(s, 1, CHOOSE i \in keep : \A j \in keep : i >= j)

ReservationPhrases ==
    { <<"r","e","s","e","r","v","a","t","i","o","n","s"," ","n","o","t"," ","r","e","q","u","i","r","e","d">>,
      <<"r","e","s","e","r","v","a","t","i","o","n"," ","n","o","t"," ","r","e","q","u","i","r","e","d">>,
      <<"r","e","s","e","r","v","a","t","i","o","n","s"," ","r","e","q","u","i","r","e","d">>,
      <<"r","e","s","e","r","v","a","t","i","o","n"," ","r","e","q","u","i","r","e","d">>,
      <<"r","e","q","u","i","r","e","s"," ","r","e","s","e","r","v","a","t","i","o","n","s">>,
      <<"r","e","q","u","i","r","e","s"," ","r","e","s","e","r","v","a","t","i","o","n">> }

\* cutReservationRequirement: the name without a recognized clause after
\* its last asterisk.
cutReservationRequirement(activity) ==
    IF LastStar(activity) # 0
       /\ normalizeText(Trim(SubSeq(activity, LastStar(activity), Len(activity)),
                             {"*", ".", " ", "(", ")"}), FALSE, TRUE) \in ReservationPhrases
    THEN TrimSpace(SubSeq(activity, 1, LastStar(activity) - 1))
    ELSE activity

REDUCED == <<"r", "e", "d", "u", "c", "e", "d">>

CAPACITY == <<"c", "a", "p", "a", "c", "i", "t", "y">>

\* (?i) reduced at q.
reducedAt(s, q) == HasAt(LowerText(s), q, REDUCED)

\* The end of reduced(?:\s* capacity)? at q, with the capacity taken.
withCapacity(s, q) ==
    IF spanOf(s, q + 7, ReSpaces) > q + 7 /\ HasAt(LowerText(s), spanOf(s, q + 7, ReSpaces), CAPACITY)
    THEN spanOf(s, q + 7, ReSpaces) + 8
    ELSE q + 7

\* ^reduced(?:\s* capacity)?[\s-]* : the text after the match at the start.
cutReducedStart(s) ==
    IF reducedAt(s, 1)
    THEN SubSeq(s, spanOf(s, withCapacity(s, 1), PreSepChars), Len(s))
    ELSE s

\* [\s-]*reduced(?:\s* capacity)?$ from p.
reducedEndAt(s, p) ==
    /\ reducedAt(s, spanOf(s, p, PreSepChars))
    /\ \/ withCapacity(s, spanOf(s, p, PreSepChars)) = Len(s) + 1
       \/ spanOf(s, p, PreSepChars) + 7 = Len(s) + 1

\* The text before the leftmost match at the end.
cutReducedEnd(s) ==
    IF \E p \in 1..Len(s) : reducedEndAt(s, p)
    THEN SubSeq(s, 1, (CHOOSE p \in 1..Len(s) : reducedEndAt(s, p) /\ \A q \in 1..(p - 1) : ~reducedEndAt(s, q)) - 1)
    ELSE s

\* The matches of reducedCapacityRe replaced by "": at the start, then at
\* the end of what the first match left.
withoutReduced(s) ==
    IF reducedAt(s, 1) THEN cutReducedEnd(cutReducedStart(s)) ELSE cutReducedEnd(s)

\* cutReducedCapacity.
cutReducedCapacity(activity) ==
    [s |-> withoutReduced(activity), reduced |-> withoutReduced(activity) # activity]

\* The pairs of activityReplacer, in argument order.
ReplacerPairs ==
    << <<<<"s","w","i","m","m","i","n","g">>, <<"s","w","i","m">>>>,
       <<<<"a","q","u","a","l","i","t","e">>, <<"a","q","u","a"," ","l","i","t","e">>>>,
       <<<<"s","k","a","t","i","n","g">>, <<"s","k","a","t","e">>>>,
       <<<<"p","i","c","k"," ","u","p"," ">>, <<"p","i","c","k","-","u","p"," ">>>>,
       <<<<"p","i","c","k","u","p"," ">>, <<"p","i","c","k","-","u","p"," ">>>>,
       <<<<"s","p","o","r","t"," ">>, <<"s","p","o","r","t","s"," ">>>>,
       <<<<" ","-"," ","c","o","u","r","t","s">>, <<" ","c","o","u","r","t">>>>,
       <<<<" ","-"," ","c","o","u","r","t">>, <<" ","c","o","u","r","t">>>>,
       <<<<"REG">>, <<>>>> >>

\* The pair used at position i: the first in argument order whose old text
\* stands there, 0 when none.
pairAt(s, i) ==
    IF \E k \in 1..Len(ReplacerPairs) : HasAt(s, i, ReplacerPairs[k][1])
    THEN CHOOSE k \in 1..Len(ReplacerPairs) :
            /\ HasAt(s, i, ReplacerPairs[k][1])
            /\ \A j \in 1..(k - 1) : ~HasAt(s, i, ReplacerPairs[j][1])
    ELSE 0

\* activityReplacer.Replace from position i on.
RECURSIVE replaceFrom(_, _)
replaceFrom(s, i) ==
    IF i > Len(s) THEN <<>>
    ELSE IF pairAt(s, i) # 0
    THEN ReplacerPairs[pairAt(s, i)][2] \o replaceFrom(s, i + Len(ReplacerPairs[pairAt(s, i)][1]))
    ELSE <<s[i]>> \o replaceFrom(s, i + 1)

\* strconv.Itoa of a positive number.
RECURSIVE Itoa(_)
Itoa(n) == IF n < 10 THEN <<DigitChar(n)>> ELSE Itoa(n \div 10) \o <<DigitChar(n % 10)>>

\* if hasAge { ... }.
withAge(activity, a) ==
    IF a.ok THEN TrimRight(activity, {"-", " "}) \o <<" ">> \o Itoa(a.age) \o <<"+">>
    ELSE activity

\* if reduced { ... }.
withReduced(activity, reduced) ==
    IF reduced THEN activity \o <<" ", "-", " ">> \o REDUCED \o <<" ">> \o CAPACITY
    ELSE activity

\* cleanActivityName after its cuts.
cleanWith(a, c) ==
    normalizeText(withReduced(withAge(replaceFrom(c.s, 1), a), c.reduced), FALSE, FALSE)

cleanAfterAge(a) == cleanWith(a, cutReducedCapacity(a.s))

\* cleanActivityName.
cleanActivityName(activity) ==
    cleanAfterAge(cutAgeMin(cutReservationRequirement(normalizeText(activity, FALSE, TRUE))))

---------------------------------------------------------------------------
(* The schedule table loop of run: the day cells of an activity row.       *)

\* Where the first field of s ends: before its first comma.
fieldEnd(s) == IF Index(s, <<",">>) = 0 THEN Len(s) ELSE Index(s, <<",">>) - 1

\* strings.FieldsFuncSeq(s, r == ','): the non-empty runs between commas.
RECURSIVE fieldsComma(_)
fieldsComma(s) ==
    IF s = <<>> THEN <<>>
    ELSE IF s[1] = "," THEN fieldsComma(Tail(s))
    ELSE <<SubSeq(s, 1, fieldEnd(s))>> \o fieldsComma(SubSeq(s, fieldEnd(s) + 1, Len(s)))

\* The header's weekdays: those whose first three letters it contains.
headerWeekdays(hdr) ==
    { wd \in 0..6 : Contains(LowerText(hdr), SubSeq(WeekdayNames[wd + 1], 1, 3)) }

\* The weekday loop over a header: the weekday when exactly one matches.
headerWeekday(hdr) ==
    IF Cardinality(headerWeekdays(hdr)) = 1
    THEN CHOOSE wd \in headerWeekdays(hdr) : TRUE
    ELSE -1

\* An entry that says "n/a", whatever its spaces and case.
notApplicable(t) == RemoveSpaces(normalizeText(t, FALSE, TRUE)) = <<"n", "/", "a">>

\* schema.TimeRange: an optional field is has... and its value.
timeRange(t, wd, p) ==
    [label |-> TrimSpace(normalizeText(t, FALSE, FALSE)),
     hasWkday |-> wd # -1, xwkday |-> IF wd # -1 THEN wd ELSE 0,
     hasStart |-> p.ok, xstart |-> IF p.ok THEN p.Start ELSE 0,
     hasEnd |-> p.ok, xend |-> IF p.ok THEN p.End ELSE 0]

weekdayWarning(hdr) == [kind |-> "weekday", of |-> hdr]

timeWarning(t) == [kind |-> "time range", of |-> t]
---------------------------------------------------------------------------
(* zyte.Transport: FixedLimit, RetryLimit and the loop of RoundTrip.       *)

\* Transport.Limit or Transport.Retry is nil.
NIL == -2

\* FixedLimit's "limit != -1 && requests >= limit".
limitReached(limit, made) == limit # -1 /\ made >= limit

\* The counter of FixedLimit after a call: requests++ unless the limit is
\* reached, whatever n is.
fixedLimit(limit, made, n) == IF limitReached(limit, made) THEN made ELSE made + 1

\* The goroutines that share one LimitFunc, and the calls each of them makes.
MaxGoroutines == 3

MaxCalls == 2

Goroutines == 1..MaxGoroutines

\* RetryLimit's "n != -1 && tries >= n".
retryRefused(n, done) == n # -1 /\ done >= n

\* The kinds of response RoundTrip tells apart.
isPaid(code) == code \div 100 = 2

isRateLimit(code) == code \in {429, 503}

isBan(code) == code \in {500, 520, 521}

\* The Retry-After headers: none, an HTTP date, seconds, anything else.
RetryAfters == {"", "date", "seconds", "other"}

\* Whether the wait after a rate-limiting response can be worked out.
retryAfterParses(h) == h \in {"", "date", "seconds"}
---------------------------------------------------------------------------
(* httpcache.Transport: the files under Path and RoundTrip.                *)

\* contextCategory: the category of the request's context, "req" without.
contextCategory(c) == IF c # "" THEN c ELSE "req"

\* cacheName: category, "-" and the SHA-1 of the URL; the hash is taken to
\* tell the URLs apart.
cacheName(c, u) == <<contextCategory(c), u>>

\* The categories in the order os.ReadDir lists their files.
SortedCategories == <<"geo", "page", "req">>

\* The files whose name ends in the cacheSuffix of u.
suffixFiles(cache, u) ==
    { i \in 1..Len(SortedCategories) : cache[<<SortedCategories[i], u>>] # 0 }

\* A mutant: files of other categories are used whatever Fallback is.
useFallback_always(cache, fallback, c, u) ==
    cache[cacheName(c, u)] = 0 /\ suffixFiles(cache, u) # {}

\* Lines 74-88: the file of the category is missing, Fallback is set and
\* another category has a file for the URL.
useFallback(cache, fallback, c, u) ==
    cache[cacheName(c, u)] = 0 /\ fallback /\ suffixFiles(cache, u) # {}

\* The first file of the directory with the suffix.
fallbackName(cache, u) ==
    <<SortedCategories[CHOOSE i \in suffixFiles(cache, u) :
                           \A j \in suffixFiles(cache, u) : i <= j], u>>

\* Lines 72-89: whether a stored response is found.
isCached(cache, fallback, c, u) ==
    cache[cacheName(c, u)] # 0 \/ useFallback(cache, fallback, c, u)

\* Lines 73-88: the file that is read.
cachedName(cache, fallback, c, u) ==
    IF useFallback(cache, fallback, c, u) THEN fallbackName(cache, u) ELSE cacheName(c, u)

\* Lines 90-103: the stored response; its request is given the scheme https.
cachedResponse(stored) == [err |-> "", body |-> stored, scheme |-> "https", called |-> FALSE]

\* Lines 121-147: the response Next gave.
fetchedResponse(u, up) == [err |-> "", body |-> up, scheme |-> u.scheme, called |-> TRUE]

\* RoundTrip returns an error.
cacheError(e, called) == [err |-> e, body |-> 0, scheme |-> "", called |-> called]

\* Lines 59-148: what RoundTrip returns; up is what Next gives, 0 an error.
roundTrip(path, fallback, next, cache, m, c, u, up) ==
    IF m # "GET" THEN cacheError("unsupported method", FALSE)
    ELSE IF path /\ isCached(cache, fallback, c, u)
    THEN cachedResponse(cache[cachedName(cache, fallback, c, u)])
    ELSE IF ~next THEN cacheError("fetch disabled", FALSE)
    ELSE IF up = 0 THEN cacheError("error of Next", TRUE)
    ELSE fetchedResponse(u, up)

\* Lines 142-146: the files after RoundTrip has returned res.
written(path, cache, c, u, res) ==
    IF path /\ res.called /\ res.err = ""
    THEN [cache EXCEPT ![cacheName(c, u)] = res.body]
    ELSE cache



---------------------------------------------------------------------------
(* The time cells parseClockRange is run on.                               *)

\* The longest run of repeated am/pm suffixes and of separators in a cell.
MaxDup == 2

MaxSeps == 3

\* A number in decimal, and in two zero-padded digits.
Dec(n) == IF n < 10 THEN <<DigitChar(n)>> ELSE <<DigitChar(n \div 10), DigitChar(n % 10)>>

Dec2(n) == <<DigitChar(n \div 10), DigitChar(n % 10)>>

PlainHours == {0, 1, 5, 12, 13, 24}

\* -1: the side has no minute.
PlainMinutes == {-1, 0, 30, 60}

\* A plain hour or hour:minute.
PlainText(h, mn, pad) ==
    (IF pad THEN Dec2(h) ELSE Dec(h))
    \o (IF mn < 0 THEN <<>> ELSE <<":">> \o Dec2(mn))

PlainSides == { PlainText(h, mn, pad) : h \in PlainHours, mn \in PlainMinutes, pad \in BOOLEAN }

\* A few plain sides that carry an am/pm suffix in the dup-suffix cells.
BaseSides == { PlainText(h, mn, FALSE) : h \in {0, 5, 12, 13}, mn \in {-1, 30} }

\* The suffix k times, run together or spaced out.
RECURSIVE SuffixRun(_, _, _)
SuffixRun(suffix, k, spaced) ==
    IF k = 0 THEN <<>>
    ELSE (IF spaced THEN <<" ">> ELSE <<>>) \o suffix \o SuffixRun(suffix, k - 1, spaced)

\* Plain sides with one am or pm suffix.
MeridiemSides ==
    { PlainText(h, mn, pad) \o suffix :
        h \in PlainHours, mn \in {-1, 30}, pad \in BOOLEAN, suffix \in {AM, PM} }

\* Sides whose am/pm suffix is repeated.
DupSides ==
    { b \o SuffixRun(suffix, k, spaced) :
        b \in BaseSides, suffix \in {AM, PM}, k \in 2..MaxDup, spaced \in BOOLEAN }

\* Sides with a malformed or mixed suffix.
MalformedSides ==
    { b \o x : b \in { <<"5">>, <<"1","2",":","3","0">> },
               x \in { <<"a","a","m">>, <<"p","p","m">>, <<"a","a">>, <<"p","p">>,
                       <<"p","m","a","m">>, <<"a","m"," ","p","m">> } }
    \cup { NOON \o <<" ">> \o PM, MIDNIGHT \o AM, NOON \o <<"a","a","m">> }

\* HhMM.
FrenchSides ==
    { <<"0","h","0","0">>, <<"1","h","0","0">>, <<"5","h","3","0">>,
      <<"1","2","h","0","0">>, <<"1","3","h","3","0">>, <<"2","4","h","0","0">> }

\* HHMM.
MilitarySides ==
    { <<"0","0","0","0">>, <<"0","1","0","0">>, <<"0","5","3","0">>,
      <<"1","2","0","0">>, <<"1","3","3","0">>, <<"2","4","0","0">> }

\* Sides with a sign, a letter or too many digits in a number.
OddSides ==
    { <<"+","5">>, <<"1",":","+","5">>, <<"a","9",":","0","0">>, <<"0","0","1",":","0","0">>,
      <<"0","1",":","0","0","0">>, <<"1","h","0","0","a","m">>, <<"x">>, <<>> }

\* Sides as they come off a page: capitals, padding, invisible characters.
RawSides ==
    { <<"N","o","o","n">>, <<"M","i","d","n","i","g","h","t">>,
      <<" "," ","ESC","1",":","0","0","p","m"," ">>,
      <<"NL"," "," ","NBSP","2",":","ZWSP","0","0","NUL"," ","a","m">>,
      <<"TAB","5"," ","P","M">> }

Sides ==
    PlainSides \cup MeridiemSides \cup DupSides \cup MalformedSides \cup FrenchSides
    \cup MilitarySides \cup OddSides \cup RawSides \cup {NOON, MIDNIGHT}

\* One separator.
Separators == { <<"-">>, <<"t","o">> }

\* A run of k separators, run together or spaced out.
RECURSIVE SepRuns(_, _)
SepRuns(k, spaced) ==
    IF k = 0 THEN { <<>> }
    ELSE { (IF spaced THEN <<" ">> ELSE <<>>) \o sep \o rest \o (IF spaced THEN <<" ">> ELSE <<>>) :
             sep \in Separators, rest \in SepRuns(k - 1, spaced) }

\* Two or more separators with nothing but spaces between them.
TypoMiddles == UNION { SepRuns(k, spaced) : k \in 2..MaxSeps, spaced \in BOOLEAN }

\* Two separators with something else between them.
JunkMiddles ==
    { <<" ","-"," ","x"," ","-"," ">>, <<"-","0","2",":","0","0","-">>,
      <<"-","2",":","-">>, <<"-","2","h","-">>, <<"t","o","5","t","o">>,
      <<"-","2","a","m","-">> }

Middles == Separators \cup { <<" ","ENDASH"," ">> } \cup TypoMiddles \cup JunkMiddles

\* The sides used around the longer middles.
FewSides ==
    { <<"1">>, <<"0","1",":","0","0">>, <<"0">>, <<"0","3",":","0","0">>, <<"2","a","m">>,
      <<"0","2",":","0","0"," ","a","m">>, NOON, <<"0","1","0","0">>, <<>> }

\* The text of the cell.
Text == lhs \o mid \o rhs

---------------------------------------------------------------------------
(* The date phrases parseDateRange is run on: captions of the kinds in     *)
(* TestParseDateRange, written out from their parts.                       *)

ToUpper(c) ==
    IF \E i \in 1..26 : LowerSeq[i] = c
    THEN UpperSeq[CHOOSE i \in 1..26 : LowerSeq[i] = c]
    ELSE c

\* A name as captions print it: capitalized, whole or cut to three letters.
NameText(x, abbr) ==
    <<ToUpper(x[1])>> \o (IF abbr THEN SubSeq(x, 2, 3) ELSE Tail(x))

Dec4(n) == Dec2(n \div 100) \o Dec2(n % 100)

WeekdayText(x) ==
    IF x.w < 0 THEN <<>> ELSE NameText(WeekdayNames[x.w + 1], x.abbr) \o <<",", " ">>

YearText(x) == IF x.y = 0 THEN <<>> ELSE <<",", " ">> \o Dec4(x.y)

\* "Monday, August 25, 2025" and its shorter forms.
DateText(x) ==
    WeekdayText(x) \o NameText(MonthNames[x.m], x.abbr) \o <<" ">> \o Dec(x.d) \o YearText(x)

\* The text of one side of a phrase.
LooseText(x) ==
    IF x.form = "none" THEN <<>>
    ELSE IF x.form = "date" THEN DateText(x)
    ELSE IF x.form = "day" THEN Dec(x.d)
    ELSE IF x.form = "signed" THEN <<"+">> \o Dec(x.d)
    ELSE IF x.form = "month" THEN WeekdayText(x) \o NameText(MonthNames[x.m], x.abbr)
    ELSE IF x.form = "weekday" THEN NameText(WeekdayNames[x.w + 1], x.abbr)
    ELSE IF x.form = "badyear" THEN DateText(x) \o <<",", " ", "2", "0", "a", "a">>
    ELSE IF x.form = "trailing" THEN DateText(x) \o <<" ">> \o NameText(MonthNames[2], x.abbr)
    ELSE <<"L", "a", "b", "o", "u", "r", " ", "D", "a", "y">>

NoSide == [form |-> "none", w |-> -1, m |-> 0, d |-> 0, y |-> 0, abbr |-> FALSE]

LeftDays == {1, 25, 28, 29, 30, 31, 32}

LeftMonths == {1, 2, 8}

LeftYears == {0, 2001, 2025}

\* Dates as captions write them: Monday or no weekday, with or without year.
LeftDates ==
    [form : {"date"}, w : {-1, 1}, m : LeftMonths, d : LeftDays, y : LeftYears,
     abbr : BOOLEAN]

\* Phrases that are no date: "January", "Tuesday", "February 28, 20aa",
\* "January 1 February", "Labour Day".
JunkDates ==
    [form : {"month", "badyear", "trailing"}, w : {-1, 1}, m : {1, 2}, d : {1, 28},
     y : {0}, abbr : {FALSE}]
    \cup [form : {"weekday", "junk"}, w : {2}, m : {0}, d : {0}, y : {0}, abbr : {FALSE}]

Lefts == LeftDates \cup JunkDates

RightDays == {0, 1, 2, 26, 29, 30, 31, 32, 33}

\* A right side that is only a day number: "31", "+31".
BareDays ==
    [form : {"day", "signed"}, w : {-1}, m : {0}, d : RightDays, y : {0}, abbr : {FALSE}]

\* A right side that is a date of its own: "September 1", "Friday, August 29".
RightDates ==
    [form : {"date"}, w : {-1, 5}, m : {8, 9}, d : {1, 29, 32}, y : {0, 2025},
     abbr : {FALSE}]

Rights == BareDays \cup RightDates \cup JunkDates

FewLefts == {x \in LeftDates : x.m = 8 /\ x.d \in {30, 32} /\ x.y # 2001}

FewRights == {x \in Rights : x.d \in {1, 31} /\ x.y = 0}

Modifiers == { <<"S","t","a","r","t","i","n","g"," ">>, UNTIL }

Connectives == {TO, AND}

\* The phrase handed to parseDateRange.
Phrase == dmod \o LooseText(dleft) \o dconn \o LooseText(dright)

---------------------------------------------------------------------------
(* The parts of the program that are not running.                          *)

DateIdle ==
    /\ dmod = <<>> /\ dleft = NoSide /\ dconn = <<>> /\ dright = NoSide
    /\ dpc = "idle"
    /\ dr = RangeFail

ClockIdle ==
    /\ lhs = <<>> /\ mid = <<>> /\ rhs = <<>>
    /\ pc = "idle"
    /\ s1 = <<>> /\ s2 = <<>>
    /\ t1 = 0 /\ m1 = NoMeridiem /\ t2 = 0 /\ m2 = NoMeridiem
    /\ r = Failed

NoComponents == [from |-> "none", y |-> 0, m |-> 0, d |-> 0, w |-> -1]

PackIdle ==
    /\ comp1 = NoComponents /\ comp2 = NoComponents /\ rawDate = 0
    /\ date1 = 0 /\ date2 = 0 /\ valid1 = FALSE
    /\ spc = "idle"

TextIdle ==
    /\ text = <<>> /\ nl = FALSE /\ lc = FALSE
    /\ once = <<>> /\ twice = <<>>
    /\ npc = "idle"

CutIdle ==
    /\ caption = <<>>
    /\ cut = [prefix |-> <<>>, dates |-> <<>>, ok |-> FALSE]
    /\ kpc = "idle"

CleanIdle ==
    /\ aname = <<>>
    /\ cleaned = <<>>
    /\ apc = "idle"

RowIdle ==
    /\ row = <<>>
    /\ ci = 0
    /\ fields = <<>>
    /\ hwkday = -1
    /\ times = <<>>
    /\ days = <<>>
    /\ xerrors = <<>>
    /\ rpc = "idle"

ZyteIdle ==
    /\ zlimit = NIL /\ requests = 0
    /\ zretry = NIL /\ tries = 0
    /\ cancelled = FALSE
    /\ zlast = "none" /\ zresult = "none"
    /\ trips = 0 /\ sent = 0 /\ paid = 0 /\ bans = 0 /\ retryCalls = 0
    /\ zpc = "off"

CacheIdle ==
    /\ hpath = FALSE /\ hfallback = FALSE /\ hnext = FALSE
    /\ hcache = <<>>
    /\ hreq = <<>>
    /\ hres = <<>>
    /\ hpc = "off"

RangeIdle ==
    /\ qr = <<0, 0, 0, 0>> /\ qo = <<0, 0, 0, 0>>
    /\ rng = [Start |-> 0, End |-> 0] /\ oth = [Start |-> 0, End |-> 0]
    /\ ovl = FALSE /\ lvo = FALSE
    /\ gpc = "off"

RaceIdle ==
    /\ flimit = 0 /\ fcount = 0
    /\ fpc = [g \in Goroutines |-> "off"]
    /\ freg = [g \in Goroutines |-> 0]
    /\ fcalls = [g \in Goroutines |-> 0]
    /\ fnils = 0 /\ ferrs = 0

BesideClockIdle == DateIdle /\ PackIdle /\ TextIdle /\ CutIdle /\ CleanIdle /\ RowIdle /\ ZyteIdle /\ CacheIdle /\ RangeIdle /\ RaceIdle

BesideDateIdle == ClockIdle /\ PackIdle /\ TextIdle /\ CutIdle /\ CleanIdle /\ RowIdle /\ ZyteIdle /\ CacheIdle /\ RangeIdle /\ RaceIdle

BesidePackIdle == ClockIdle /\ DateIdle /\ TextIdle /\ CutIdle /\ CleanIdle /\ RowIdle /\ ZyteIdle /\ CacheIdle /\ RangeIdle /\ RaceIdle

BesideTextIdle == ClockIdle /\ DateIdle /\ PackIdle /\ CutIdle /\ CleanIdle /\ RowIdle /\ ZyteIdle /\ CacheIdle /\ RangeIdle /\ RaceIdle

BesideCutIdle == ClockIdle /\ DateIdle /\ PackIdle /\ TextIdle /\ CleanIdle /\ RowIdle /\ ZyteIdle /\ CacheIdle /\ RangeIdle /\ RaceIdle

BesideCleanIdle == ClockIdle /\ DateIdle /\ PackIdle /\ TextIdle /\ CutIdle /\ RowIdle /\ ZyteIdle /\ CacheIdle /\ RangeIdle /\ RaceIdle

BesideRowIdle == ClockIdle /\ DateIdle /\ PackIdle /\ TextIdle /\ CutIdle /\ CleanIdle /\ ZyteIdle /\ CacheIdle /\ RangeIdle /\ RaceIdle

BesideZyteIdle == ClockIdle /\ DateIdle /\ PackIdle /\ TextIdle /\ CutIdle /\ CleanIdle /\ RowIdle /\ CacheIdle /\ RangeIdle /\ RaceIdle

BesideCacheIdle == ClockIdle /\ DateIdle /\ PackIdle /\ TextIdle /\ CutIdle /\ CleanIdle /\ RowIdle /\ ZyteIdle /\ RangeIdle /\ RaceIdle

BesideRangeIdle == ClockIdle /\ DateIdle /\ PackIdle /\ TextIdle /\ CutIdle /\ CleanIdle /\ RowIdle /\ ZyteIdle /\ CacheIdle /\ RaceIdle

BesideRaceIdle == ClockIdle /\ DateIdle /\ PackIdle /\ TextIdle /\ CutIdle /\ CleanIdle /\ RowIdle /\ ZyteIdle /\ CacheIdle /\ RangeIdle

---------------------------------------------------------------------------
(* The run of parseClockRange on one cell.                                 *)

ClockInit ==
    /\ BesideClockIdle
    /\ \/ lhs \in Sides /\ mid = <<"-">> /\ rhs \in Sides
       \/ lhs \in FewSides /\ mid \in Middles /\ rhs \in FewSides
    /\ pc = "start"
    /\ s1 = <<>> /\ s2 = <<>>
    /\ t1 = 0 /\ m1 = NoMeridiem /\ t2 = 0 /\ m2 = NoMeridiem
    /\ r = Failed

\* Lines 1537-1643: normalize, cut at the separator, skip extra separators.
CutSides ==
    /\ pc = "start"
    /\ \E c \in {cutSides(Text)} :
         IF c.ok
         THEN s1' = c.s1 /\ s2' = c.s2 /\ pc' = "parts" /\ r' = r
         ELSE s1' = s1 /\ s2' = s2 /\ pc' = "done" /\ r' = Failed
    /\ UNCHANGED <<lhs, mid, rhs, t1, m1, t2, m2, besideClock>>

\* Lines 1644-1651: parse each side on its own.
ParseParts ==
    /\ pc = "parts"
    /\ \E pa \in {parsePart(s1, NoMeridiem)}, pb \in {parsePart(s2, NoMeridiem)} :
         IF pa.ok /\ pb.ok
         THEN /\ t1' = pa.t /\ m1' = pa.m /\ t2' = pb.t /\ m2' = pb.m
              /\ pc' = "resolve" /\ r' = r
         ELSE /\ UNCHANGED <<t1, m1, t2, m2>>
              /\ pc' = "done" /\ r' = Failed
    /\ UNCHANGED <<lhs, mid, rhs, s1, s2, besideClock>>

\* Lines 1652-1670: ambiguity, reparse of the left side, zero range, next day.
Resolve ==
    /\ pc = "resolve"
    /\ \E x \in {resolve(s1, [t |-> t1, m |-> m1, ok |-> TRUE],
                             [t |-> t2, m |-> m2, ok |-> TRUE])} :
          /\ t1' = (IF x.left.ok THEN x.left.t ELSE t1)
          /\ m1' = (IF x.left.ok THEN x.left.m ELSE m1)
          /\ r' = x.res
    /\ pc' = "done"
    /\ UNCHANGED <<lhs, mid, rhs, s1, s2, t2, m2, besideClock>>

ClockNext == CutSides \/ ParseParts \/ Resolve

SpecClock == ClockInit /\ [][ClockNext]_vars

---------------------------------------------------------------------------
(* The run of parseDateRange on one phrase.                                *)

DateInit ==
    /\ BesideDateIdle
    /\ \/ dmod \in Modifiers \cup {<<>>} /\ dleft \in Lefts /\ dconn = <<>> /\ dright = NoSide
       \/ dmod = <<>> /\ dleft \in Lefts /\ dconn \in Connectives /\ dright \in Rights
       \/ dmod \in Modifiers /\ dleft \in FewLefts /\ dconn \in Connectives /\ dright \in FewRights
    /\ dpc = "start"
    /\ dr = RangeFail

\* Lines 1726-1890: the whole of parseDateRange.
ParseDateRange ==
    /\ dpc = "start"
    /\ dr' = parseDateRange(Phrase)
    /\ dpc' = "done"
    /\ UNCHANGED <<dmod, dleft, dconn, dright, besideDate>>

DateNext == ParseDateRange

SpecDate == DateInit /\ [][DateNext]_vars

---------------------------------------------------------------------------
(* The use of schema.Date: a Date is made from components by MakeDate or   *)
(* converted from an integer, as Date(2222_11_21_3), and then validated.   *)

PackYears == {0, 1, 2001, 2024, 2025, 9999, 10000}

PackMonths == 0..13

PackDays == 0..32

\* time.Weekday values: Sunday = 0 .. Saturday = 6, negative for
\* unspecified, and past Saturday.
PackWeekdays == -3..8

Components == [from : {"parts"}, y : PackYears, m : PackMonths, d : PackDays, w : PackWeekdays]

\* The components two Dates are compared on.
FewComponents ==
    [from : {"parts"}, y : {0, 2025, 9999}, m : {0, 1, 12}, d : {0, 1, 31}, w : {-2, -1, 0, 6}]

\* Integers that are no MakeDate result, or a rare one.
RawDates == {-1, 0, 3, 8003, 13000, 202500008, 222211213, 999999998, 999999999, 1000000000}

PackInit ==
    /\ BesidePackIdle
    /\ \/ comp1 \in Components /\ comp2 = NoComponents /\ rawDate = 0
       \/ comp1 \in FewComponents /\ comp2 \in FewComponents /\ rawDate = 0
       \/ comp1 = [NoComponents EXCEPT !.from = "integer"] /\ comp2 = NoComponents
          /\ rawDate \in RawDates
    /\ date1 = 0 /\ date2 = 0 /\ valid1 = FALSE
    /\ spc = "start"

\* schema.MakeDate on each set of components.
Make ==
    /\ spc = "start" /\ comp1.from = "parts"
    /\ date1' = MakeDate(comp1.y, comp1.m, comp1.d, comp1.w)
    /\ date2' = MakeDate(comp2.y, comp2.m, comp2.d, comp2.w)
    /\ spc' = "made"
    /\ UNCHANGED <<comp1, comp2, rawDate, valid1, besidePack>>

\* The conversion Date(x).
Convert ==
    /\ spc = "start" /\ comp1.from = "integer"
    /\ date1' = rawDate
    /\ spc' = "made"
    /\ UNCHANGED <<comp1, comp2, rawDate, date2, valid1, besidePack>>

\* Date.IsValid.
Validate ==
    /\ spc = "made"
    /\ valid1' = DateIsValid(date1)
    /\ spc' = "done"
    /\ UNCHANGED <<comp1, comp2, rawDate, date1, date2, besidePack>>

PackNext == Make \/ Convert \/ Validate

SpecPack == PackInit /\ [][PackNext]_vars

---------------------------------------------------------------------------
(* normalizeText applied to a scraped text, and again to its own result.   *)

MaxText == 4

TextAlphabet == {" ", "NBSP", "ZWSP", "NL", "ENDASH", "LDQUO", "e", "E", "ACUTE", "IDOT"}

Texts == UNION { [1..n -> TextAlphabet] : n \in 0..MaxText }

TextInit ==
    /\ BesideTextIdle
    /\ text \in Texts /\ nl \in BOOLEAN /\ lc \in BOOLEAN
    /\ once = <<>> /\ twice = <<>>
    /\ npc = "start"

NormalizeOnce ==
    /\ npc = "start"
    /\ once' = normalizeText(text, nl, lc)
    /\ npc' = "once"
    /\ UNCHANGED <<text, nl, lc, twice, besideText>>

NormalizeAgain ==
    /\ npc = "once"
    /\ twice' = normalizeText(once, nl, lc)
    /\ npc' = "twice"
    /\ UNCHANGED <<text, nl, lc, once, besideText>>

TextNext == NormalizeOnce \/ NormalizeAgain

SpecText == TextInit /\ [][TextNext]_vars
---------------------------------------------------------------------------
(* cutDateRange on a caption.  A caption is written from three parts and   *)
(* the two separators between them (the last two may be missing), in the   *)
(* way of the captions of TestParseDateRange.                              *)

\* Single words that are no month or weekday name ("Sundays" is none).
Words ==
    { <<"a">>,
      <<"S","u","n","d","a","y","s">> }

\* Parts that begin with a month or weekday name and go on after it.
NameFirst ==
    { <<"A","u","g"," ","1">>,
      <<"M","o","n",","," ","A","u","g"," ","2","5">> }

\* A month or weekday name on its own.
BareNames ==
    { <<"S","a","t">> }

\* One modifier word and a name: "tomar" is the letters "to" and "Mar".
Modified ==
    { <<"u","n","t","i","l"," ","M","a","y"," ","2">>,
      <<"t","o","m","a","r"," ","5">> }

\* Parts that only look like a date.
Others ==
    { <<"L","a","b","o","u","r"," ","D","a","y">>,
      <<"o","n"," ","o","r"," ","A","u","g"," ","1">> }

DashSeps ==
    { <<" ","-"," ">>,
      <<"-">>,
      <<" ","-","-"," ">>,
      <<"-"," ">> }

OtherSeps ==
    { <<" ">>,
      <<","," ">> }

Parts == Words \cup NameFirst \cup BareNames \cup Modified \cup Others

CutInit ==
    /\ BesideCutIdle
    /\ \/ caption \in (Words \cup NameFirst) \X (DashSeps \cup OtherSeps) \X Parts
                      \X (DashSeps \cup OtherSeps) \X Parts
       \/ caption \in Parts \X (DashSeps \cup OtherSeps) \X Parts \X {<<>>} \X {<<>>}
       \/ caption \in Parts \X {<<>>} \X {<<>>} \X {<<>>} \X {<<>>}
    /\ cut = [prefix |-> <<>>, dates |-> <<>>, ok |-> FALSE]
    /\ kpc = "start"

CaptionText == caption[1] \o caption[2] \o caption[3] \o caption[4] \o caption[5]

CutDateRange ==
    /\ kpc = "start"
    /\ cut' = cutDateRange(CaptionText)
    /\ kpc' = "done"
    /\ UNCHANGED <<caption, besideCut>>

CutNext == CutDateRange

SpecCut == CutInit /\ [][CutNext]_vars
---------------------------------------------------------------------------
(* The activity names cleanActivityName is run on: up to three pieces,     *)
(* words, age minimums and "reduced", with a space or a dash between them. *)

ActivityWords ==
    { <<"e","x","a","m","p","l","e">>,
      <<"t","e","s","t">> }

\* The forms of an age minimum: digits and "+", in parentheses, after "ages",
\* and with a space before the "+".
AgeTokens ==
    { <<"1","5","+">>,
      <<"(","1","6","+",")">>,
      <<"a","g","e","s"," ","5","+">>,
      <<"1","5"," ","+">> }

ActivityJoins ==
    { <<" ">>,
      <<" ","-"," ">> }

ActivityPieces == ActivityWords \cup AgeTokens \cup {REDUCED}

CleanInit ==
    /\ BesideCleanIdle
    /\ \/ aname \in ActivityPieces \X ActivityJoins \X ActivityPieces
                    \X ActivityJoins \X ActivityPieces
       \/ aname \in ActivityPieces \X ActivityJoins \X ActivityPieces \X {<<>>} \X {<<>>}
       \/ aname \in ActivityPieces \X {<<>>} \X {<<>>} \X {<<>>} \X {<<>>}
    /\ cleaned = <<>>
    /\ apc = "start"

ActivityText == aname[1] \o aname[2] \o aname[3] \o aname[4] \o aname[5]

CleanActivityName ==
    /\ apc = "start"
    /\ cleaned' = cleanActivityName(ActivityText)
    /\ apc' = "done"
    /\ UNCHANGED <<aname, besideClean>>

CleanNext == CleanActivityName

SpecClean == CleanInit /\ [][CleanNext]_vars
---------------------------------------------------------------------------
(* The rows the table loop is run on: one or two day cells, each with one  *)
(* or two comma-separated entries.                                         *)

\* Entries that parse, that fail, that say n/a, and that make
\* parseClockRange panic.
CellEntries ==
    { <<"9","-","1","0","a","m">>,
      <<"6",":","3","0"," ","-"," ","8"," ","p","m">>,
      <<"c","l","o","s","e","d">>,
      <<"1","-","1">>,
      <<"N","/","A">>,
      <<"1","2","0","0","-","1","a","m">> }

FewEntries ==
    { <<"9","-","1","0","a","m">>, <<"c","l","o","s","e","d">> }

EntryJoins == { <<",">>, <<","," ">> }

CellTexts ==
    CellEntries \cup { a \o j \o b : a \in CellEntries, j \in EntryJoins, b \in CellEntries }

Headers ==
    { <<"M","o","n","d","a","y">>,
      <<"S","a","t"," ","&"," ","S","u","n">>,
      <<"H","o","l","i","d","a","y">> }

Cells == [hdr : Headers, text : CellTexts]

FewCells == [hdr : {<<"M","o","n","d","a","y">>}, text : FewEntries]

RowInit ==
    /\ BesideRowIdle
    /\ \/ \E c \in Cells : row = <<c>>
       \/ \E c \in Cells, d \in FewCells : row = <<c, d>>
    /\ ci = 1
    /\ fields = <<>>
    /\ hwkday = -1
    /\ times = <<>>
    /\ days = <<>>
    /\ xerrors = <<>>
    /\ rpc = "header"

\* Lines 718-735: the weekday of the cell's header, and the cell's entries.
ParseHeader ==
    /\ rpc = "header"
    /\ hwkday' = headerWeekday(row[ci].hdr)
    /\ xerrors' = IF headerWeekday(row[ci].hdr) = -1
                  THEN Append(xerrors, weekdayWarning(row[ci].hdr))
                  ELSE xerrors
    /\ fields' = fieldsComma(row[ci].text)
    /\ times' = <<>>
    /\ rpc' = "entries"
    /\ UNCHANGED <<row, ci, days, besideRow>>

\* Lines 735-758: one entry of the cell.  A panic of parseClockRange is not
\* recovered: it ends the program.
entryStep(t, p) ==
    IF notApplicable(t)
    THEN /\ fields' = Tail(fields)
         /\ UNCHANGED <<times, xerrors, rpc>>
    ELSE IF p.panic
    THEN /\ rpc' = "panic"
         /\ UNCHANGED <<fields, times, xerrors>>
    ELSE /\ fields' = Tail(fields)
         /\ times' = Append(times, timeRange(t, hwkday, p))
         /\ xerrors' = IF p.ok THEN xerrors ELSE Append(xerrors, timeWarning(t))
         /\ rpc' = rpc

ScrapeEntry ==
    /\ rpc = "entries"
    /\ fields # <<>>
    /\ entryStep(Head(fields), parseClockRange(Head(fields)))
    /\ UNCHANGED <<row, ci, hwkday, days, besideRow>>

\* Lines 760-762: the cell's ActivityDay, and on to the next cell.
EndCell ==
    /\ rpc = "entries"
    /\ fields = <<>>
    /\ days' = Append(days, times)
    /\ ci' = ci + 1
    /\ rpc' = IF ci = Len(row) THEN "done" ELSE "header"
    /\ UNCHANGED <<row, fields, hwkday, times, xerrors, besideRow>>

RowNext == ParseHeader \/ ScrapeEntry \/ EndCell

SpecRow == RowInit /\ [][RowNext]_vars
---------------------------------------------------------------------------
(* The Transports RoundTrip is run on, and what Next answers.              *)

\* RoundTrips made with one Transport.
MaxTrips == 3

\* Rate-limiting and ban responses Next gives within one RoundTrip.
MaxUnsuccessful == 3

\* Transport.Limit: nil or FixedLimit(limit).
Limits == {NIL, -1, 0, 1, 2, 3}

\* Transport.Retry: nil or RetryLimit(n).
Retries == {NIL, -1, 0, 1, 2}

\* The status codes of Next's responses; 0 stands for an error from Next.
Statuses == {0, 200, 204, 404, 429, 503, 500, 520, 521}

ZyteInit ==
    /\ BesideZyteIdle
    /\ zlimit \in Limits /\ requests = 0
    /\ zretry \in Retries /\ tries = 0
    /\ cancelled = FALSE
    /\ zlast = "none" /\ zresult = "none"
    /\ trips = 0 /\ sent = 0 /\ paid = 0 /\ bans = 0 /\ retryCalls = 0
    /\ zpc = "idle"

\* RoundTrip returns an error, or the response.
ZReturn(res) == zresult' = res /\ zpc' = "idle"

\* Lines 151-209: a RoundTrip begins, with a context of its own.
RoundTrip ==
    /\ zpc = "idle"
    /\ trips < MaxTrips
    /\ trips' = trips + 1
    /\ tries' = 0 /\ sent' = 0 /\ bans' = 0 /\ retryCalls' = 0
    /\ cancelled' = FALSE
    /\ zlast' = "none" /\ zresult' = "none"
    /\ zpc' = "loop"
    /\ UNCHANGED <<zlimit, zretry, requests, paid, besideZyte>>

\* Lines 211-215: z.Limit(0) before the request.
CheckLimit ==
    /\ zpc = "loop"
    /\ IF zlimit # NIL /\ limitReached(zlimit, requests)
       THEN ZReturn("request limit reached") /\ requests' = requests
       ELSE /\ requests' = IF zlimit = NIL THEN requests ELSE fixedLimit(zlimit, requests, 0)
            /\ zpc' = "send" /\ zresult' = zresult
    /\ UNCHANGED <<zlimit, zretry, tries, cancelled, zlast, trips, sent, paid, bans,
                   retryCalls, besideZyte>>

\* The error RoundTrip returns when a ban response is not retried.
notRetried == IF cancelled THEN "context" ELSE "retry limit reached"

\* Lines 269-278: a ban response.
banResponse(code) ==
    /\ bans' = bans + 1
    /\ retryCalls' = IF zretry = NIL THEN retryCalls ELSE retryCalls + 1
    /\ IF zretry = NIL \/ retryRefused(zretry, tries)
       THEN ZReturn(notRetried)
       ELSE zpc' = "backoff" /\ zresult' = zresult

\* Lines 238-265: a rate-limiting response.
rateLimitResponse(h) ==
    /\ IF retryAfterParses(h)
       THEN zpc' = "wait" /\ zresult' = zresult
       ELSE ZReturn("failed to parse retry-after")
    /\ UNCHANGED <<bans, retryCalls>>

\* Lines 281-303: any other response.
otherResponse(code, body) ==
    /\ ZReturn(IF code # 200 THEN "zyte api error"
               ELSE IF body = "good" THEN "response" ELSE "failed to parse response")
    /\ UNCHANGED <<bans, retryCalls>>

\* Lines 225-303: what RoundTrip does with what Next gave.
upstream(code, h, body) ==
    IF code = 0
    THEN /\ ZReturn("error of Next")
         /\ zlast' = "error"
         /\ UNCHANGED <<requests, paid, bans, retryCalls>>
    ELSE /\ paid' = IF isPaid(code) THEN paid + 1 ELSE paid
         /\ requests' = IF isPaid(code) /\ zlimit # NIL
                        THEN fixedLimit(zlimit, requests, 1) ELSE requests
         /\ zlast' = IF isPaid(code) THEN "paid" ELSE IF isRateLimit(code) THEN "rate"
                     ELSE IF isBan(code) THEN "ban" ELSE "other"
         /\ IF isRateLimit(code) THEN rateLimitResponse(h)
            ELSE IF isBan(code) THEN banResponse(code)
            ELSE otherResponse(code, body)

\* Line 225: the request goes to Next.
Upstream ==
    /\ zpc = "send"
    /\ sent' = sent + 1
    /\ \E code \in Statuses, h \in RetryAfters, body \in {"good", "bad"} :
         /\ sent < MaxUnsuccessful \/ ~(isRateLimit(code) \/ isBan(code))
         /\ upstream(code, h, body)
    /\ UNCHANGED <<zlimit, zretry, tries, cancelled, trips, besideZyte>>

\* Lines 241-262: the wait after a rate-limiting response is over.
RateWaitOver ==
    /\ zpc = "wait"
    /\ zpc' = "loop"
    /\ UNCHANGED <<zlimit, requests, zretry, tries, cancelled, zlast, zresult, trips, sent,
                   paid, bans, retryCalls, besideZyte>>

\* Lines 241-262: the context is done during the wait.
RateWaitCancelled ==
    /\ zpc = "wait"
    /\ cancelled
    /\ ZReturn("context")
    /\ UNCHANGED <<zlimit, requests, zretry, tries, cancelled, zlast, trips, sent, paid,
                   bans, retryCalls, besideZyte>>

\* Lines 89-94, 270-272: Retry has waited and returns true.
BackoffOver ==
    /\ zpc = "backoff"
    /\ tries' = tries + 1
    /\ zpc' = "loop"
    /\ UNCHANGED <<zlimit, requests, zretry, cancelled, zlast, zresult, trips, sent, paid,
                   bans, retryCalls, besideZyte>>

\* Lines 89-91, 274-276: the context is done while Retry waits.
BackoffCancelled ==
    /\ zpc = "backoff"
    /\ cancelled
    /\ ZReturn("context")
    /\ UNCHANGED <<zlimit, requests, zretry, tries, cancelled, zlast, trips, sent, paid,
                   bans, retryCalls, besideZyte>>

\* The caller cancels the context of the request.
Cancel ==
    /\ zpc \in {"loop", "send", "wait", "backoff"}
    /\ ~cancelled
    /\ cancelled' = TRUE
    /\ UNCHANGED <<zlimit, requests, zretry, tries, zlast, zresult, trips, sent, paid, bans,
                   retryCalls, zpc, besideZyte>>

ZyteNext ==
    \/ RoundTrip \/ CheckLimit \/ Upstream
    \/ RateWaitOver \/ RateWaitCancelled
    \/ BackoffOver \/ BackoffCancelled
    \/ Cancel

SpecZyte == ZyteInit /\ [][ZyteNext]_vars
---------------------------------------------------------------------------
(* The requests httpcache.Transport is run on, and what Next answers.      *)

Methods == {"GET", "POST"}

\* The category of the request's context; "" is none.
Categories == {"", "req", "geo", "page"}

URLs == { [scheme |-> "http", host |-> "a"], [scheme |-> "https", host |-> "b"] }

\* The bodies Next answers with; 0 is an error of Next.
Bodies == 0..2

CacheFiles == { <<SortedCategories[i], u>> : i \in 1..Len(SortedCategories), u \in URLs }

NoRequest == [method |-> "", category |-> "", url |-> [scheme |-> "", host |-> ""]]

CacheInit ==
    /\ BesideCacheIdle
    /\ hpath \in BOOLEAN /\ hfallback \in BOOLEAN /\ hnext \in BOOLEAN
    /\ hcache = [f \in CacheFiles |-> 0]
    /\ hreq = NoRequest
    /\ hres = cacheError("", FALSE)
    /\ hpc = "on"

\* Transport.RoundTrip.
CacheRoundTrip ==
    /\ hpc = "on"
    /\ \E m \in Methods, c \in Categories, u \in URLs, up \in Bodies :
         /\ hreq' = [method |-> m, category |-> c, url |-> u]
         /\ hres' = roundTrip(hpath, hfallback, hnext, hcache, m, c, u, up)
         /\ hcache' = written(hpath, hcache, c, u,
                              roundTrip(hpath, hfallback, hnext, hcache, m, c, u, up))
    /\ UNCHANGED <<hpath, hfallback, hnext, hpc, besideCache>>

\* The Transport is given another Next, or none: fetching is switched on or off.
SetNext ==
    /\ hpc = "on"
    /\ hnext' = ~hnext
    /\ UNCHANGED <<hpath, hfallback, hcache, hreq, hres, hpc, besideCache>>

CacheNext == CacheRoundTrip \/ SetNext

SpecCache == CacheInit /\ [][CacheNext]_vars






---------------------------------------------------------------------------
(* Properties of parseClockRange.                                          *)

Done == pc = "done"

\* The middle of the cell is a single separator.
OneSeparator == mid \in Separators \cup { <<" ","ENDASH"," ">> }

\* A side that carries a meridiem: an am/pm suffix, noon or midnight.
HasMeridiem(x) == x \in MeridiemSides \cup DupSides \cup {NOON, MIDNIGHT}

\* The meridiem such a side carries.
MeridiemOf(x) ==
    IF x = NOON THEN "p" ELSE IF x = MIDNIGHT THEN "a"
    ELSE IF HasSuffix(x, PM) THEN "p" ELSE "a"

\* A 12-hour hour with its meridiem, as an hour of the day.
Hour24(h, mer) ==
    IF mer = "a" THEN (IF h = 12 THEN 0 ELSE h) ELSE (IF h = 12 THEN 12 ELSE h + 12)

\* C1: parseClockRange is total: whatever the cell, it returns (range,
\* true) or (zero, false) and never panics, also for a french or military
\* left side against a right side with a meridiem.
C1_NeverPanics == ~r.panic

\* C2: a range returned with ok = true has 0 <= Start < 1440 and
\* Start < End < Start + 1440, End being the right time plus 1440 exactly
\* when the left time is greater; Format(false) of it has no "invalid".
C2_ValidBounded ==
    (Done /\ r.ok) =>
        /\ 0 <= r.Start /\ r.Start < DayMinutes
        /\ r.Start < r.End /\ r.End < r.Start + DayMinutes
        /\ r.Start = t1
        /\ r.End = (IF t1 > t2 THEN t2 + DayMinutes ELSE t2)
        /\ ~Contains(ClockRangeFormat(r, FALSE), <<"i","n","v","a","l","i","d">>)

\* A returned range that crosses midnight.
C2_Witness == Done /\ r.ok /\ t1 > t2 /\ r.End >= DayMinutes

\* C3: a left side with a meridiem against a plain hour or hour:minute on
\* the right is rejected, whatever the numbers are.
C3_AmbiguityRejected ==
    (Done /\ OneSeparator /\ HasMeridiem(lhs) /\ rhs \in PlainSides) => (~r.ok /\ ~r.panic)

\* Both sides parsed on their own, and the range was rejected as ambiguous.
C3_Witness ==
    /\ Done /\ OneSeparator /\ HasMeridiem(lhs) /\ rhs \in PlainSides
    /\ m1 # NoMeridiem /\ t1 < t2 /\ ~r.ok

C5_ZeroLengthRejected ==
    /\ (Done /\ t1 = t2) => (~r.ok /\ ~r.panic)
    /\ (Done /\ r.ok) => (r.Start # r.End /\ r.End - r.Start # DayMinutes)

\* C6: two or more separators with only spaces between them parse like a
\* single separator; anything else between two separators makes the parse
\* fail.
C6_SeparatorTolerance ==
    Done =>
        /\ mid \in TypoMiddles =>
             \A sep \in Separators : r = parseClockRange(lhs \o sep \o rhs)
        /\ mid \in JunkMiddles => (~r.ok /\ ~r.panic)

\* C7: a side whose am or pm suffix is repeated parses like the same side
\* with a single suffix, on either side of the range; a malformed or mixed
\* suffix makes the whole parse fail.
C7_DuplicateSuffix ==
    (Done /\ OneSeparator) =>
        /\ \A b \in BaseSides, suffix \in {AM, PM}, k \in 2..MaxDup, spaced \in BOOLEAN :
             /\ lhs = b \o SuffixRun(suffix, k, spaced) =>
                    r = parseClockRange(b \o suffix \o mid \o rhs)
             /\ rhs = b \o SuffixRun(suffix, k, spaced) =>
                    r = parseClockRange(lhs \o mid \o b \o suffix)
        /\ (lhs \in MalformedSides \/ rhs \in MalformedSides) => (~r.ok /\ ~r.panic)

\* "5:30am am - 5pm pm" and the like, parsed to a range.
C7_Witness ==
    /\ Done /\ OneSeparator /\ lhs \in DupSides /\ rhs \in DupSides
    /\ Contains(lhs, <<" ">>) /\ ~Contains(rhs, <<" ">>)
    /\ r.ok /\ r.Start = 5 * 60 + 30 /\ r.End = 17 * 60

---------------------------------------------------------------------------
(* Properties of parseDateRange.                                           *)

DateDone == dpc = "done"

\* What a written date says: a day its month has (February has 29 when no
\* year is written), and the weekday of that day when both weekday and
\* year are written.
SaysDate(x) ==
    /\ x.form = "date"
    /\ x.d <= daysInMonth(IF x.y = 0 THEN 2024 ELSE x.y, x.m)
    /\ (x.w >= 0 /\ x.y # 0) => x.w = WeekdayOfDate(x.y, x.m, x.d)

\* The Date a written date stands for.
DateOf(x) == x.y * 100000 + x.m * 1000 + x.d * 10 + (x.w + 1)

\* C8: every successfully returned DateRange has, on each non-zero side,
\* both month and day present by the accessors (Month() and Day() report
\* ok), also when the right side of a "to" or "and" range is a bare day
\* number, the day number 32 included.
C8_SidesHaveMonthAndDay ==
    (DateDone /\ dr.ok) =>
        /\ dr.From # 0 => (DateMonth(dr.From).ok /\ DateDay(dr.From).ok)
        /\ dr.To # 0 => (DateMonth(dr.To).ok /\ DateDay(dr.To).ok)

C10_ResultShape ==
    DateDone =>
        /\ (dconn = <<>> /\ SaysDate(dleft)) =>
              /\ dr.ok
              /\ LowerText(dmod) = STARTING => (dr.From = DateOf(dleft) /\ dr.To = 0)
              /\ LowerText(dmod) = UNTIL => (dr.From = 0 /\ dr.To = DateOf(dleft))
              /\ dmod = <<>> => (dr.From = DateOf(dleft) /\ dr.To = DateOf(dleft))
        /\ (dmod # <<>> /\ dconn # <<>>) => ~dr.ok

C10_Witness ==
    /\ DateDone /\ LowerText(dmod) = STARTING /\ dconn = <<>>
    /\ dleft.w = 1 /\ dleft.y = 2025
    /\ dr.ok /\ dr.From = 202508252 /\ dr.To = 0

---------------------------------------------------------------------------
(* Properties of schema.Date.                                              *)

\* The calendar, counted in days from January 1 of year 1 (a Monday).
Leap(y) == y % 4 = 0 /\ (y % 100 # 0 \/ y % 400 = 0)

MonthLengths == <<31, 28, 31, 30, 31, 30, 31, 31, 30, 31, 30, 31>>

CalDaysIn(y, m) == IF m = 2 /\ Leap(y) THEN 29 ELSE MonthLengths[m]

DaysBeforeMonth == <<0, 31, 59, 90, 120, 151, 181, 212, 243, 273, 304, 334>>

DayNumber(y, m, d) ==
    365 * (y - 1) + ((y - 1) \div 4) - ((y - 1) \div 100) + ((y - 1) \div 400)
    + DaysBeforeMonth[m] + (IF m > 2 /\ Leap(y) THEN 1 ELSE 0) + d

\* Sunday = 0.
CalWeekday(y, m, d) == DayNumber(y, m, d) % 7

\* The digit groups of a legal date: each zero or in its range, the day
\* within its month (of a leap year when no year is given), the weekday
\* that of the calendar when all four are given.
LegalGroups(yg, mg, dg, wg) ==
    /\ mg = 0 \/ mg \in 1..12
    /\ dg = 0 \/ dg \in 1..31
    /\ wg = 0 \/ wg \in 1..7
    /\ (mg # 0 /\ dg # 0) => dg <= CalDaysIn(IF yg = 0 THEN 2024 ELSE yg, mg)
    /\ (yg # 0 /\ mg # 0 /\ dg # 0 /\ wg # 0) => wg - 1 = CalWeekday(yg, mg, dg)

LegalDate(d) ==
    /\ d > 0 /\ d < 999999999
    /\ LegalGroups(d \div 100000, (d \div 1000) % 100, (d \div 10) % 100, d % 10)

\* C11: Date.IsValid is true exactly when the packed value is > 0 and
\* < 999999999, every non-zero digit group is in its legal range, a present
\* day is within its month (of the given year, or of a leap year when no
\* year is given), and a weekday given with year, month and day is the
\* calendar weekday of that date.
C11_IsValidExactly == spc = "done" => (valid1 <=> LegalDate(date1))

C11_Witness == spc = "done" /\ comp1.from = "parts" /\ valid1 /\ date1 = 2290

\* The tuple (year, month, day, weekday) of in-range components, an
\* unspecified weekday counted as 0 and Sunday..Saturday as 1..7.
InRange(c) ==
    /\ c.from = "parts"
    /\ c.y \in 0..9999 /\ c.m \in 0..12 /\ c.d \in 0..31
    /\ c.w < 0 \/ c.w \in 0..6

WeekdayDigitOf(c) == IF c.w < 0 THEN 0 ELSE c.w + 1

Present(v) == [v |-> v, ok |-> TRUE]

Absent == [v |-> 0, ok |-> FALSE]

\* C12: for in-range components, MakeDate packs year*100000 + month*1000 +
\* day*10 + w (w = weekday + 1, 0 for any negative weekday), and Year(),
\* Month(), Day(), Weekday() return each specified component as present
\* with its value and each unspecified one as absent, also when a weekday
\* is given without a day.
C12_PackingRoundTrip ==
    (spc # "start" /\ InRange(comp1)) =>
        /\ date1 = comp1.y * 100000 + comp1.m * 1000 + comp1.d * 10 + WeekdayDigitOf(comp1)
        /\ DateYear(date1) = (IF comp1.y # 0 THEN Present(comp1.y) ELSE Absent)
        /\ DateMonth(date1) = (IF comp1.m # 0 THEN Present(comp1.m) ELSE Absent)
        /\ DateDay(date1) = (IF comp1.d # 0 THEN Present(comp1.d) ELSE Absent)
        /\ DateWeekday(date1) = (IF comp1.w >= 0 THEN Present(comp1.w) ELSE Absent)

TupleOf(c) == <<c.y, c.m, c.d, WeekdayDigitOf(c)>>

LexLess(a, b) ==
    \E i \in 1..4 : a[i] < b[i] /\ \A j \in 1..(i - 1) : a[j] = b[j]

\* C13: for two Dates made from in-range components, d1 < d2 iff the tuple
\* (year, month, day, weekday) of d1 is lexicographically smaller than
\* that of d2, and d1 = d2 iff the tuples are equal.
C13_OrderPreserved ==
    (spc # "start" /\ InRange(comp1) /\ InRange(comp2)) =>
        /\ date1 < date2 <=> LexLess(TupleOf(comp1), TupleOf(comp2))
        /\ date1 = date2 <=> TupleOf(comp1) = TupleOf(comp2)

---------------------------------------------------------------------------
(* Properties of normalizeText.                                            *)

\* C14: normalizeText is idempotent for every input and both flags:
\* normalizeText(normalizeText(s, nl, lc), nl, lc) = normalizeText(s, nl, lc),
\* also where deleting invisible characters, mapping dashes or quotes, or
\* lowercasing makes new space runs, new leading or trailing whitespace,
\* or new composable character sequences.
C14_Idempotent == npc = "twice" => twice = once

---------------------------------------------------------------------------
(* Properties of cutDateRange.                                             *)

CutDone == kpc = "done"

\* What follows a separator begins a date phrase: an optional modifier
\* word, then a month or weekday name that a space, a comma or the end of
\* the caption follows.
BeginsPhrase(part, sep, next) ==
    \/ part \in NameFirst \cup Modified
    \/ part \in BareNames /\ (sep = <<>> \/ sep[1] \in {" ", ","})
    \/ part \in Words /\ sep = <<" ">> /\ next \in NameFirst \cup BareNames

\* The splits of the caption that satisfy the pattern.
FirstSplit == caption[2] \in DashSeps /\ BeginsPhrase(caption[3], caption[4], caption[5])

SecondSplit == caption[4] \in DashSeps /\ BeginsPhrase(caption[5], <<>>, <<>>)

Uncut == [prefix |-> CaptionText, dates |-> <<>>, ok |-> FALSE]

AtFirst ==
    [prefix |-> caption[1], dates |-> caption[3] \o caption[4] \o caption[5], ok |-> TRUE]

AtSecond ==
    [prefix |-> caption[1] \o caption[2] \o caption[3], dates |-> caption[5], ok |-> TRUE]

\* C15 as stated: when more than one split satisfies the pattern,
\* cutDateRange returns the one whose date phrase is the textually
\* shortest; when none does, it returns (s, "", false).
C15_ShortestPhrase ==
    CutDone =>
        cut = IF SecondSplit THEN AtSecond ELSE IF FirstSplit THEN AtFirst ELSE Uncut

\* C15 amended: when more than one split satisfies the pattern,
\* cutDateRange returns the one with the shortest prefix, whose date phrase
\* is the longest, so that no part of a date is left in the prefix; when
\* none does, it returns (s, "", false).
C15_ShortestPrefix ==
    CutDone =>
        cut = IF FirstSplit THEN AtFirst ELSE IF SecondSplit THEN AtSecond ELSE Uncut

C15_Witness ==
    /\ CutDone /\ FirstSplit /\ SecondSplit
    /\ cut.ok /\ cut.prefix = caption[1]
    /\ Len(cut.dates) > Len(caption[5])

---------------------------------------------------------------------------
(* Properties of cleanActivityName.                                        *)

CleanDone == apc = "done"

\* The number of age minimums among the pieces of the name.
AgeTokenCount == Cardinality({ i \in {1, 3, 5} : aname[i] \in AgeTokens })

\* C16: a name with two or more age minimums, wherever they stand, comes
\* back as it was: no age is taken out of it and nothing is moved.
C16_RejectOnMultiple ==
    (CleanDone /\ AgeTokenCount >= 2) => cleaned = ActivityText

---------------------------------------------------------------------------
(* Properties of the schedule table loop.                                  *)

\* The entries of cell c that do not say n/a.
EntriesOf(c) == SelectSeq(fieldsComma(row[c].text), LAMBDA t : ~notApplicable(t))

\* The entries of cell c for which parseClockRange gives no range.
FailedIn(c) == { i \in 1..Len(EntriesOf(c)) : ~parseClockRange(EntriesOf(c)[i]).ok }

RECURSIVE FailedUpTo(_)
FailedUpTo(c) == IF c = 0 THEN 0 ELSE Cardinality(FailedIn(c)) + FailedUpTo(c - 1)

\* The warnings about time ranges in facility._errors.
TimeWarnings == Len(SelectSeq(xerrors, LAMBDA w : w.kind = "time range"))

\* Every TimeRange emitted so far.
Emitted ==
    UNION { { days[c][i] : i \in 1..Len(days[c]) } : c \in 1..Len(days) }
    \cup { times[i] : i \in 1..Len(times) }

\* Cell c came out with one TimeRange for each of its entries, in order:
\* the entry's label, the header's weekday when known, and a start and an
\* end exactly when the entry parses.
CellEmitted(c) ==
    /\ Len(days[c]) = Len(EntriesOf(c))
    /\ \A i \in 1..Len(EntriesOf(c)) :
         /\ days[c][i].label = TrimSpace(normalizeText(EntriesOf(c)[i], FALSE, FALSE))
         /\ days[c][i].hasWkday <=> Cardinality(headerWeekdays(row[c].hdr)) = 1
         /\ days[c][i].hasStart <=> parseClockRange(EntriesOf(c)[i]).ok
         /\ days[c][i].hasEnd <=> parseClockRange(EntriesOf(c)[i]).ok

RowDone == rpc = "done"

\* C17: a failing entry does not stop the scraper: the row is gone through
\* to its end, every entry that is not n/a has its TimeRange, without start
\* and end when it does not parse, with one warning for each such entry; a
\* TimeRange has a start exactly when it has an end.
C17_FailureIsolation ==
    /\ rpc # "panic"
    /\ \A tr \in Emitted : tr.hasStart <=> tr.hasEnd
    /\ RowDone => /\ Len(days) = Len(row)
                  /\ \A c \in 1..Len(row) : CellEmitted(c)
                  /\ TimeWarnings = FailedUpTo(Len(row))

---------------------------------------------------------------------------
(* Properties of zyte.Transport.                                           *)

\* The Transport has a FixedLimit with a limit of 0 or more.
HasLimit == zlimit # NIL /\ zlimit >= 0

\* C18: FixedLimit(L) counts what it is asked to add, so the count is the
\* number of paid (2xx) responses and the checks with n = 0 cost nothing;
\* RoundTrip fails with the request limit only after L paid responses, and
\* never are there more than L.
C18_FixedLimit ==
    HasLimit => /\ requests = paid
                /\ paid <= zlimit
                /\ zresult = "request limit reached" => paid = zlimit

\* A RoundTrip has returned.
Returned == zpc = "idle" /\ trips > 0

\* C19: a ban response is retried only when Retry says so: never without a
\* Retry, and at most n times with RetryLimit(n), n >= 0; a rate-limiting
\* response calls no Retry and uses up no retry, and a RoundTrip whose last
\* response was a rate-limiting one ends only with the context cancelled,
\* returning the context's error.
C19_RetryProtocol ==
    /\ zretry = NIL => (retryCalls = 0 /\ tries = 0 /\ bans <= 1)
    /\ zretry >= 0 => (tries <= zretry /\ bans <= zretry + 1)
    /\ retryCalls <= bans /\ tries <= bans
    /\ (Returned /\ zlast = "rate") => (cancelled /\ zresult = "context")

---------------------------------------------------------------------------
(* Properties of httpcache.Transport.                                      *)

\* The file of the last request's category and URL.
OwnFile == cacheName(hreq.category, hreq.url)

\* The bodies stored for a URL in any category.
StoredFor(u) == { hcache[<<SortedCategories[i], u>>] : i \in 1..Len(SortedCategories) } \ {0}

\* The step is a RoundTrip of a GET request.
GetStep == hnext' = hnext /\ hreq'.method = "GET"

\* A RoundTrip came back with a response and without calling Next.
FromCache == hres.err = "" /\ ~hres.called /\ hres.body # 0

\* A response that came through Next without error is stored under the
\* category and URL of its request.
Stores ==
    (GetStep /\ hpath /\ hres'.called /\ hres'.err = "")
        => (hres'.body # 0 /\ hcache'[OwnFile'] = hres'.body)

\* No RoundTrip removes or changes a stored response.
Keeps == \A f \in CacheFiles : hcache[f] # 0 => hcache'[f] = hcache[f]

\* A request whose category and URL have a stored response gets it, and
\* Next is not called.
Hits ==
    (GetStep /\ hpath /\ hcache[OwnFile'] # 0)
        => (FromCache' /\ hres'.body = hcache[OwnFile'] /\ hcache' = hcache)

\* Without Fallback a response stored in another category is of no use:
\* the request is a miss, answered through Next or with an error.  With
\* Fallback it is answered with a response stored in another category.
OtherCategory ==
    (GetStep /\ hpath /\ hcache[OwnFile'] = 0)
        => IF hfallback /\ StoredFor(hreq'.url) # {}
           THEN FromCache' /\ hres'.body \in StoredFor(hreq'.url) /\ hcache' = hcache
           ELSE ~FromCache'

\* Without Next a miss is an error and nothing is stored.
NextNil ==
    (GetStep /\ ~hnext /\ ~FromCache') => (hres'.err # "" /\ ~hres'.called /\ hcache' = hcache)

\* C20: with Path set, a response fetched through Next without error is
\* stored by category and URL and stays stored, and every later RoundTrip
\* for that category and URL returns it without calling Next; a request in
\* another category misses unless Fallback is set; without Next a miss is
\* an error and leaves the cache as it is.
C20_CachedIndefinitely == [][Stores /\ Keeps /\ Hits /\ OtherCategory /\ NextNil]_vars

\* A request without a category is answered from the "req" file while
\* fetching is off and Fallback is not set, with an "http" URL.
C20_Witness ==
    /\ FromCache /\ hpath /\ ~hnext /\ ~hfallback
    /\ hreq.method = "GET" /\ hreq.category = "" /\ hreq.url.scheme = "http"
    /\ hres.body = hcache[<<"req", hreq.url>>]
    /\ hcache[<<"geo", hreq.url>>] # 0 /\ hcache[<<"geo", hreq.url>>] # hres.body

---------------------------------------------------------------------------
(* More properties of parseClockRange.                                     *)

\* A side in French (HhMM) or military (HHMM) form.
Is24h(x) == x \in FrenchSides \cup MilitarySides

\* C21: a French or military left side is not parsed again with the right
\* side's meridiem: it keeps its 24-hour value, and the range goes from it
\* to the right side's 12-hour value, with the zero-length and next-day
\* rules.
C21_LeftKeeps24h ==
    (Done /\ OneSeparator /\ Is24h(lhs) /\ HasMeridiem(rhs)
          /\ parsePart(lhs, NoMeridiem).ok /\ parsePart(rhs, NoMeridiem).ok)
        => /\ ~r.panic
           /\ r.ok <=> parsePart(lhs, NoMeridiem).t # t2
           /\ r.ok => /\ r.Start = parsePart(lhs, NoMeridiem).t
                      /\ r.End = (IF r.Start > t2 THEN t2 + DayMinutes ELSE t2)

\* C22: a left side with a meridiem against a French or military right
\* side is not ambiguous: the range goes from the left side's 12-hour value
\* to the right side read as 24-hour time.
C22_SelfSufficientRight ==
    (Done /\ OneSeparator /\ HasMeridiem(lhs) /\ Is24h(rhs)
          /\ parsePart(lhs, NoMeridiem).ok /\ parsePart(rhs, NoMeridiem).ok)
        => /\ ~r.panic
           /\ r.ok <=> parsePart(lhs, NoMeridiem).t # parsePart(rhs, NoMeridiem).t
           /\ r.ok => /\ r.Start = parsePart(lhs, NoMeridiem).t
                      /\ r.End = nextDay(r.Start, parsePart(rhs, NoMeridiem).t)

---------------------------------------------------------------------------
(* More properties of parseDateRange.                                      *)

\* C23: every non-zero side of a DateRange returned by parseDateRange passes
\* Date.IsValid: a day number of 32, or past the length of its month, is
\* rejected also when it is written as the bare right day of a "to" or
\* "and" range ("August 2 to 32", "July 31 and 32", "February 28, 2025 to
\* 29").
C23_SidesAreValid ==
    (DateDone /\ dr.ok) =>
        /\ dr.From # 0 => DateIsValid(dr.From)
        /\ dr.To # 0 => DateIsValid(dr.To)

---------------------------------------------------------------------------
(* Round trips through Format.                                             *)

dateText(w, y, m, dd) ==
    (IF w.ok THEN NameText(WeekdayNames[w.v + 1], FALSE) ELSE <<>>)
    \o (IF m.ok
        THEN (IF w.ok THEN <<",", " ">> ELSE <<>>)
             \o NameText(MonthNames[m.v], FALSE)
             \o (IF dd.ok \/ y.ok THEN <<" ">> ELSE <<>>)
             \o (IF dd.ok THEN Itoa(dd.v) ELSE <<>>)
        ELSE <<>>)
    \o (IF y.ok
        THEN (IF w.ok \/ (m.ok /\ dd.ok) THEN <<",", " ">> ELSE <<>>) \o Itoa(y.v)
        ELSE <<>>)

\* Date.String.
DateString(d) ==
    IF DateIsZero(d) THEN <<>>
    ELSE dateText(DateWeekday(d), DateYear(d), DateMonth(d), DateDay(d))

INVALID == <<"<","i","n","v","a","l","i","d",">">>

\* One side of DateRange.String.
sideString(d) == IF DateIsValid(d) THEN DateString(d) ELSE INVALID

\* DateRange.String.
DateRangeString(rg) ==
    IF rg.From = 0 /\ rg.To = 0 THEN <<>>
    ELSE IF rg.From = rg.To THEN DateString(rg.From)
    ELSE (IF rg.From # 0 /\ rg.To = 0 THEN <<"s","t","a","r","t","i","n","g"," ">>
          ELSE IF rg.From = 0 /\ rg.To # 0 THEN <<"u","n","t","i","l"," ">>
          ELSE <<>>)
         \o (IF rg.From # 0 THEN sideString(rg.From) ELSE <<>>)
         \o (IF rg.From # 0 /\ rg.To # 0 THEN <<" ","t","o"," ">> ELSE <<>>)
         \o (IF rg.To # 0 THEN sideString(rg.To) ELSE <<>>)

\* C25: for every DateRange r returned successfully by parseDateRange,
\* r.String() contains no "<invalid>" and parseDateRange(r.String())
\* succeeds and returns exactly r, for single dates, "starting"/"until"
\* ranges, "to" ranges and "and" ranges alike.
C25_DateRoundTrip ==
    (DateDone /\ dr.ok) =>
        /\ ~Contains(DateRangeString(dr), INVALID)
        /\ parseDateRange(DateRangeString(dr)) = dr

---------------------------------------------------------------------------
(* schema.ClockRange built from numbers, and Overlaps.                     *)

\* MakeClockRange: an end before the start is moved to the next day.
MakeClockRange(hh1, mm1, hh2, mm2) ==
    IF MakeClockTime(hh2, mm2) < MakeClockTime(hh1, mm1)
    THEN [Start |-> MakeClockTime(hh1, mm1), End |-> MakeClockTime(hh2, mm2) + 24 * 60]
    ELSE [Start |-> MakeClockTime(hh1, mm1), End |-> MakeClockTime(hh2, mm2)]

\* ClockRange.Overlaps.
Overlaps(rg, o) == ClockRangeIsValid(rg) /\ rg.Start <= o.End /\ o.Start <= rg.End

(* The run of MakeClockRange and Overlaps: r from hours and minutes on both *)
(* sides of zero and of a day, o from whole hours.                         *)
RangeHours == {-1, 0, 1, 12, 23, 25}
RangeMinutes == {-1, 0, 30}
FewHours == {-1, 0, 12, 23}

RangeInit ==
    /\ BesideRangeIdle
    /\ qr \in RangeHours \X RangeMinutes \X RangeHours \X RangeMinutes
    /\ qo \in FewHours \X {0} \X FewHours \X {0}
    /\ rng = [Start |-> 0, End |-> 0] /\ oth = [Start |-> 0, End |-> 0]
    /\ ovl = FALSE /\ lvo = FALSE
    /\ gpc = "args"

\* part_005 lines 91-100, for r and for o.
MakeRanges ==
    /\ gpc = "args"
    /\ rng' = MakeClockRange(qr[1], qr[2], qr[3], qr[4])
    /\ oth' = MakeClockRange(qo[1], qo[2], qo[3], qo[4])
    /\ gpc' = "made"
    /\ UNCHANGED <<qr, qo, ovl, lvo, besideRange>>

\* part_005 lines 127-129, both ways round.
CallOverlaps ==
    /\ gpc = "made"
    /\ ovl' = Overlaps(rng, oth)
    /\ lvo' = Overlaps(oth, rng)
    /\ gpc' = "done"
    /\ UNCHANGED <<qr, qo, rng, oth, besideRange>>

RangeNext == MakeRanges \/ CallOverlaps

SpecRange == RangeInit /\ [][RangeNext]_vars

---------------------------------------------------------------------------
(* Properties of MakeClockRange and Overlaps.                              *)

RangeMade == gpc \in {"made", "done"}

INVALIDTIME == <<"i","n","v","a","l","i","d">>

\* C26: MakeClockRange(hh1, mm1, hh2, mm2) is valid iff all four arguments
\* are non-negative and the two times differ; with a negative hour or
\* minute on either side the range is invalid and formats as "invalid".
C26_ValidIffNonNegative ==
    RangeMade =>
        /\ ClockRangeIsValid(rng) <=>
              /\ \A i \in 1..4 : qr[i] >= 0
              /\ qr[1] * 60 + qr[2] # qr[3] * 60 + qr[4]
        /\ (\E i \in 1..4 : qr[i] < 0) =>
              /\ ~ClockRangeIsValid(rng)
              /\ ClockRangeFormat(rng, TRUE) = INVALIDTIME
              /\ ClockRangeFormat(rng, FALSE) = INVALIDTIME

\* C27: r.Overlaps(o) is true iff r and o are both valid and the closed
\* intervals intersect; it is symmetric, and false when either operand is
\* invalid.
C27_OverlapsIff ==
    gpc = "done" =>
        /\ ovl <=> /\ ClockRangeIsValid(rng) /\ ClockRangeIsValid(oth)
                   /\ rng.Start <= oth.End /\ oth.Start <= rng.End
        /\ ovl = lvo
        /\ ~(ClockRangeIsValid(rng) /\ ClockRangeIsValid(oth)) => (~ovl /\ ~lvo)

---------------------------------------------------------------------------
(* More properties of cleanActivityName.                                   *)

\* The age minimum cleanActivityName took out of the name.
CleanAge == cutAgeMin(cutReservationRequirement(normalizeText(ActivityText, FALSE, TRUE)))

ReducedSuffix == <<" ", "-", " ">> \o REDUCED \o <<" ">> \o CAPACITY

\* C28: cleanActivityName is idempotent: the appended " N+" and
\* " - reduced capacity" suffixes are recognized again and put back in the
\* same place, the age suffix before the reduced-capacity suffix.
C28_Idempotent ==
    CleanDone =>
        /\ cleanActivityName(cleaned) = cleaned
        /\ (CleanAge.ok /\ HasSuffix(cleaned, ReducedSuffix)) =>
              HasSuffix(cleaned, Itoa(CleanAge.age) \o <<"+">> \o ReducedSuffix)

---------------------------------------------------------------------------
(* The numeric components of parseClockRange.                              *)

\* The side x, which is not "noon" or "midnight", has a character that is
\* no ASCII digit in its hour or minute substring.
NonDigitIn(x) ==
    /\ x \notin {NOON, MIDNIGHT}
    /\ \/ ~AllDigits(splitPart(x, NoMeridiem).sh)
       \/ ~AllDigits(splitPart(x, NoMeridiem).sm)

\* C29: parseClockRange accepts only ASCII digits in numeric components:
\* when, with the am/pm suffix removed, the hour or minute substring of
\* either side has a character that is no ASCII digit (a leading "+" as in
\* "1-+2" or "1:+5-2"), the parse fails.
C29_DigitsOnly ==
    (Done /\ cutSides(Text).ok /\ (NonDigitIn(s1) \/ NonDigitIn(s2))) => ~r.ok

---------------------------------------------------------------------------
(* The closure of FixedLimit called from several goroutines.  The closure  *)
(* takes no lock, so its test of requests, its read for requests++ and its *)
(* write are steps of their own, and other goroutines run between them.    *)
(* The build may read requests again for the increment or keep the value   *)
(* it tested.                                                              *)

SharedLimits == {-1, 1, 2, 3}

RaceInit ==
    /\ BesideRaceIdle
    /\ flimit \in SharedLimits
    /\ fcount = 0
    /\ fpc = [g \in Goroutines |-> "idle"]
    /\ freg = [g \in Goroutines |-> 0]
    /\ fcalls = [g \in Goroutines |-> 0]
    /\ fnils = 0 /\ ferrs = 0

\* Line 57: a goroutine calls the LimitFunc.
CallLimit(g) ==
    /\ fpc[g] = "idle"
    /\ fcalls[g] < MaxCalls
    /\ fcalls' = [fcalls EXCEPT ![g] = @ + 1]
    /\ fpc' = [fpc EXCEPT ![g] = "check"]
    /\ UNCHANGED <<flimit, fcount, freg, fnils, ferrs, besideRace>>

\* Lines 58-60: requests is read and tested against the limit.
TestLimit(g) ==
    /\ fpc[g] = "check"
    /\ IF limitReached(flimit, fcount)
       THEN /\ ferrs' = ferrs + 1
            /\ fpc' = [fpc EXCEPT ![g] = "idle"]
            /\ freg' = freg
       ELSE /\ ferrs' = ferrs
            /\ fpc' = [fpc EXCEPT ![g] = "incr"]
            /\ freg' = [freg EXCEPT ![g] = fcount]
    /\ UNCHANGED <<flimit, fcount, fcalls, fnils, besideRace>>

\* Line 61, the read of requests++: requests is read again.
Reload(g) ==
    /\ fpc[g] = "incr"
    /\ freg' = [freg EXCEPT ![g] = fcount]
    /\ fpc' = [fpc EXCEPT ![g] = "store"]
    /\ UNCHANGED <<flimit, fcount, fcalls, fnils, ferrs, besideRace>>

\* Line 61, the read of requests++: the value tested is kept.
Reuse(g) ==
    /\ fpc[g] = "incr"
    /\ fpc' = [fpc EXCEPT ![g] = "store"]
    /\ UNCHANGED <<flimit, fcount, freg, fcalls, fnils, ferrs, besideRace>>

\* Lines 61-62, the write of requests++ and the return of nil.
StoreCount(g) ==
    /\ fpc[g] = "store"
    /\ fcount' = freg[g] + 1
    /\ fnils' = fnils + 1
    /\ fpc' = [fpc EXCEPT ![g] = "idle"]
    /\ UNCHANGED <<flimit, freg, fcalls, ferrs, besideRace>>

RaceNext ==
    \E g \in Goroutines :
        CallLimit(g) \/ TestLimit(g) \/ Reload(g) \/ Reuse(g) \/ StoreCount(g)

SpecRace == RaceInit /\ [][RaceNext]_vars

---------------------------------------------------------------------------
(* Properties of FixedLimit under concurrent use.                          *)

\* No goroutine is inside the closure.
AllReturned == \A g \in Goroutines : fpc[g] = "idle"

\* C30: when several goroutines call the LimitFunc of FixedLimit(L), the
\* calls that return nil never number more than L, and no increment of the
\* request counter is lost: once every call has returned, the counter is
\* the number of nil returns.
C30_ConcurrentLimit ==
    /\ flimit # -1 => fnils <= flimit
    /\ AllReturned => fcount = fnils

====
